---- MODULE Spec2Model ----
(***************************************************************************)
(* LOOP / WHILE / GOTO: the two reference evaluators of the repository     *)
(* (src/src/while/interpreter.ts, src/src/goto/interpreter.ts) as          *)
(* small-step machines, the LOOP evaluator and the three translators as    *)
(* the specification describes them, and the translate-then-evaluate       *)
(* flows of tests/translators.test.ts and cli.ts.                          *)
(***************************************************************************)
EXTENDS Integers, Sequences, FiniteSets, TLC

(***************************************************************************)
(* Bounds of the model.                                                    *)
(***************************************************************************)
\* Literals of the program text and supplied initial values range over 0..MaxVal.
MaxVal == 2
\* An evaluation of a source program is followed for at most MaxSteps steps.
MaxSteps == 24

(***************************************************************************)
(* Program constants.                                                      *)
(***************************************************************************)
WhileSafetyLimit == 1000000
GotoSafetyLimit == 1000000
\* README: "The interpreter stops after 1000 loop iterations"
ReadmeIterationLimit == 1000

(***************************************************************************)
(* Abstract syntax (records carrying the field names of the ASTs).         *)
(***************************************************************************)
Num(n) == [type |-> "number", value |-> n]
Var(name) == [type |-> "variable", name |-> name]
BinaryOp(op, l, r) == [type |-> "binaryOp", operator |-> op, left |-> l, right |-> r]
Cond(l, op, r) == [operator |-> op, left |-> l, right |-> r]

Assignment(v, e) == [type |-> "assignment", variable |-> v, value |-> e]
\* LOOP
Loop(v, body) == [type |-> "loop", variable |-> v, body |-> body]
\* WHILE; elseBody is optional in the AST: hasElse says whether it is present.
While(c, body) == [type |-> "while", condition |-> c, body |-> body]
If(c, thenBody) ==
    [type |-> "if", condition |-> c, thenBody |-> thenBody, hasElse |-> FALSE, elseBody |-> <<>>]
IfElse(c, thenBody, elseBody) ==
    [type |-> "if", condition |-> c, thenBody |-> thenBody, hasElse |-> TRUE, elseBody |-> elseBody]
\* GOTO; the empty label is "no label" (instr.label is falsy).
Goto(label) == [type |-> "goto", label |-> label]
IfGoto(c, label) == [type |-> "if_goto", condition |-> c, label |-> label]
Halt == [type |-> "halt"]
Instr(label, stmt) == [label |-> label, statement |-> stmt]

(***************************************************************************)
(* Map<string, number> and Set<string>.                                    *)
(***************************************************************************)
EmptyMap == <<>>
MapHas(m, k) == k \in DOMAIN m
MapSet(m, k, v) == [n \in (DOMAIN m) \cup {k} |-> IF n = k THEN v ELSE m[n]]
RECURSIVE MapOfPairs(_)
MapOfPairs(pairs) ==
    IF pairs = <<>> THEN EmptyMap
    ELSE MapSet(MapOfPairs(SubSeq(pairs, 1, Len(pairs) - 1)),
                pairs[Len(pairs)][1], pairs[Len(pairs)][2])
\* An absent key read as 0 (result.get(key) ?? 0).
Get0(m, k) == IF k \in DOMAIN m THEN m[k] ELSE 0

(***************************************************************************)
(* number: the values of variables are IEEE-754 doubles.  The model holds   *)
(* the naturals below 2^30 as themselves, and above them the powers of two  *)
(* 2^30 .. 2^1023, Infinity and NaN, each as the next integer in that       *)
(* order (2^30 is its own code).  The operators are defined where operands  *)
(* and result are among these values, and nowhere else.                     *)
(***************************************************************************)
JS_Exact == 2^30
JS_Pow2(k) == JS_Exact + (k - 30)
JS_Infinity == JS_Pow2(1024)
JS_NaN == JS_Infinity + 1
JS_IsNatural(v) == v >= 0 /\ v < JS_Infinity
\* left + right
JS_add(left, right) ==
    CASE left = JS_NaN \/ right = JS_NaN -> JS_NaN
      [] left # JS_NaN /\ right # JS_NaN /\ (left = JS_Infinity \/ right = JS_Infinity) ->
            JS_Infinity
      [] left < JS_Exact /\ right < JS_Exact /\ left + right <= JS_Exact -> left + right
      [] left >= JS_Exact /\ left < JS_Infinity /\ right = left -> left + 1
      [] left >= JS_Exact /\ left < JS_Infinity /\ right = 0 -> left
      [] right >= JS_Exact /\ right < JS_Infinity /\ left = 0 -> right
\* Math.max(0, left - right)
JS_monus(left, right) ==
    CASE left = JS_NaN \/ right = JS_NaN -> JS_NaN
      [] left = JS_Infinity /\ right = JS_Infinity -> JS_NaN
      [] left = JS_Infinity /\ right < JS_Infinity -> JS_Infinity
      [] left < JS_Infinity /\ right = JS_Infinity -> 0
      [] left < JS_Exact /\ right < JS_Infinity ->
            IF right >= JS_Exact THEN 0 ELSE IF left - right > 0 THEN left - right ELSE 0
      [] left >= JS_Exact /\ left < JS_Infinity /\ right = left -> 0
      [] left >= JS_Exact /\ left < JS_Infinity /\ right = 0 -> left
      [] left >= JS_Exact /\ left < JS_Infinity /\ right > left /\ right < JS_Infinity -> 0
\* left === right, left < right: false when an operand is NaN
JS_equal(left, right) == left # JS_NaN /\ right # JS_NaN /\ left = right
JS_less(left, right) == left # JS_NaN /\ right # JS_NaN /\ left < right
\* value || 0: 0 and NaN are falsy
JS_orZero(value) == IF value = 0 \/ value = JS_NaN THEN 0 ELSE value

(***************************************************************************)
(* WhileInterpreter (src/src/while/interpreter.ts).                        *)
(***************************************************************************)
\* this.variables.get(name) || 0
W_getVariableValue(variables, name) ==
    IF MapHas(variables, name) THEN JS_orZero(variables[name]) ELSE 0

RECURSIVE W_evaluateExpression(_, _)
\* The subtraction without the floor at 0 (Math.max(0, ...) dropped).
W_evaluateBinaryExpression_NoFloor(variables, expression) ==
    LET left == W_evaluateExpression(variables, expression.left)
        right == W_evaluateExpression(variables, expression.right)
    IN  CASE expression.operator = "+" -> left + right
          [] expression.operator = "-" -> left - right

W_evaluateBinaryExpression(variables, expression) ==
    LET left == W_evaluateExpression(variables, expression.left)
        right == W_evaluateExpression(variables, expression.right)
    IN  CASE expression.operator = "+" -> JS_add(left, right)
          [] expression.operator = "-" -> JS_monus(left, right)

W_evaluateExpression(variables, expression) ==
    CASE expression.type = "number" -> expression.value
      [] expression.type = "variable" -> W_getVariableValue(variables, expression.name)
      [] expression.type = "binaryOp" -> W_evaluateBinaryExpression(variables, expression)

\* The comparison with "=" and "!=" taken for each other.
W_evaluateCondition_Swapped(variables, condition) ==
    LET left == W_evaluateExpression(variables, condition.left)
        right == W_evaluateExpression(variables, condition.right)
    IN  CASE condition.operator = "=" -> left # right
          [] condition.operator = "!=" -> left = right
          [] condition.operator = "<" -> left < right
          [] condition.operator = ">" -> left > right
          [] condition.operator = "<=" -> left <= right
          [] condition.operator = ">=" -> left >= right

W_evaluateCondition(variables, condition) ==
    LET left == W_evaluateExpression(variables, condition.left)
        right == W_evaluateExpression(variables, condition.right)
    IN  CASE condition.operator = "=" -> JS_equal(left, right)
          [] condition.operator = "!=" -> ~JS_equal(left, right)
          [] condition.operator = "<" -> JS_less(left, right)
          [] condition.operator = ">" -> JS_less(right, left)
          [] condition.operator = "<=" -> JS_less(left, right) \/ JS_equal(left, right)
          [] condition.operator = ">=" -> JS_less(right, left) \/ JS_equal(left, right)

\* One activation of a statement list: the top-level loop of evaluate, the body
\* of an if branch (kind "block"), or the body of a while statement (kind
\* "while", with the locals safetyCounter and iteration of that activation).
\* idx is the 1-based position of the statement to execute next; a while frame
\* with idx = 0 stands at its condition test.
NoCond == Cond(Num(0), "=", Num(0))
W_BlockFrame(body) ==
    [kind |-> "block", body |-> body, idx |-> 1, condition |-> NoCond,
     safetyCounter |-> 0, iteration |-> 0]
W_WhileFrame(statement) ==
    [kind |-> "while", body |-> statement.body, idx |-> 0, condition |-> statement.condition,
     safetyCounter |-> 0, iteration |-> 0]

Top(stack) == stack[Len(stack)]
Pop(stack) == SubSeq(stack, 1, Len(stack) - 1)
ReplaceTop(stack, f) == [stack EXCEPT ![Len(stack)] = f]
Advance(stack) == ReplaceTop(stack, [Top(stack) EXCEPT !.idx = @ + 1])

\* Control returns from finished statement lists: the end of a for-of loop over
\* a branch returns to the enclosing list, the end of a while body returns to
\* the condition test.
RECURSIVE W_Unwind(_)
W_Unwind(stack) ==
    IF stack = <<>> THEN stack
    ELSE LET f == Top(stack)
         IN  IF f.idx <= Len(f.body) THEN stack
             ELSE IF f.kind = "while" THEN ReplaceTop(stack, [f EXCEPT !.idx = 0])
             ELSE IF Len(stack) = 1 THEN <<>>
             ELSE W_Unwind(Advance(Pop(stack)))

W_HasStatement(wi) ==
    /\ wi.status = "running"
    /\ wi.stack # <<>>
    /\ Top(wi.stack).idx >= 1
    /\ Top(wi.stack).idx <= Len(Top(wi.stack).body)
W_Statement(wi) == Top(wi.stack).body[Top(wi.stack).idx]

\* The interpreter after control has moved to `stack`: evaluate returns
\* this.variables when the top-level statement list is exhausted.
W_Continue(wi, variables, lockedVariables, stack) ==
    LET s == W_Unwind(stack)
    IN  [wi EXCEPT !.variables = variables, !.lockedVariables = lockedVariables,
                   !.stack = s, !.steps = @ + 1,
                   !.status = IF s = <<>> THEN "returned" ELSE "running"]

W_Throw(wi, message) ==
    [wi EXCEPT !.status = "thrown", !.error = message, !.steps = @ + 1]

\* exprToString(expr), conditionToString(cond)
RECURSIVE W_exprToString(_)
W_exprToString(expr) ==
    CASE expr.type = "number" -> ToString(expr.value)
      [] expr.type = "variable" -> expr.name
      [] expr.type = "binaryOp" ->
            "(" \o W_exprToString(expr.left) \o " " \o expr.operator \o " "
                \o W_exprToString(expr.right) \o ")"
W_conditionToString(cond) ==
    W_exprToString(cond.left) \o " " \o cond.operator \o " " \o W_exprToString(cond.right)

\* if (this.verbose) console.log(line): console is the output written so far.
W_log(wi, line) == IF wi.verbose THEN [wi EXCEPT !.console = Append(@, line)] ELSE wi

\* constructor
W_new ==
    [variables |-> EmptyMap, lockedVariables |-> {}, verbose |-> FALSE,
     stack |-> <<>>, status |-> "idle", error |-> "", steps |-> 0, console |-> <<>>]

\* setVariable(name, value)
W_setVariable(wi, name, value) == [wi EXCEPT !.variables = MapSet(@, name, value)]

\* evaluate without this.variables.clear() and this.lockedVariables.clear():
\* what the instance held before the call stays.
W_evaluate_NoClear(wi, program, options) ==
    LET variables == IF options.hasInitial THEN options.initialVariables ELSE EmptyMap
        lockedVariables == IF options.hasInitial THEN DOMAIN options.initialVariables ELSE {}
        stack == W_Unwind(<<W_BlockFrame(program.statements)>>)
    IN  [variables |-> [n \in DOMAIN wi.variables \cup DOMAIN variables |->
                            IF n \in DOMAIN variables THEN variables[n] ELSE wi.variables[n]],
         lockedVariables |-> wi.lockedVariables \cup lockedVariables,
         verbose |-> options.verbose, stack |-> stack,
         status |-> IF stack = <<>> THEN "returned" ELSE "running",
         error |-> "", steps |-> 0, console |-> wi.console]

\* evaluate(program, options) up to the first statement: clear, read the
\* options, pin the initial variables. options = [hasInitial, initialVariables, verbose].
W_evaluate(wi, program, options) ==
    LET variables == IF options.hasInitial THEN options.initialVariables ELSE EmptyMap
        lockedVariables == IF options.hasInitial THEN DOMAIN options.initialVariables ELSE {}
        stack == W_Unwind(<<W_BlockFrame(program.statements)>>)
    IN  [variables |-> variables, lockedVariables |-> lockedVariables,
         verbose |-> options.verbose, stack |-> stack,
         status |-> IF stack = <<>> THEN "returned" ELSE "running",
         error |-> "", steps |-> 0, console |-> wi.console]

\* return this.variables: the Map of the instance, not a copy.
W_returnValue(wi) == wi.variables

\* evaluate(program, held) where held is the Map an earlier call of this
\* instance returned, this.variables itself: clear() empties it before the
\* loop over initialVariables reads it, so nothing is set and nothing pinned.
W_evaluateHeld(wi, program) ==
    W_evaluate(wi, program,
               [hasInitial |-> TRUE, initialVariables |-> EmptyMap, verbose |-> FALSE])

\* The suppressed assignment that releases every lock (lockedVariables.clear()
\* for lockedVariables.delete(variable)).
W_executeAssignment_ReleaseAll(wi, statement) ==
    LET value == W_evaluateExpression(wi.variables, statement.value)
    IN  IF statement.variable \in wi.lockedVariables
        THEN W_Continue(wi, wi.variables, {}, Advance(wi.stack))
        ELSE W_Continue(wi, MapSet(wi.variables, statement.variable, value),
                        wi.lockedVariables, Advance(wi.stack))

\* The assignment that keeps the lock: lockedVariables.delete(variable) dropped.
W_executeAssignment_KeepLock(wi, statement) ==
    LET value == W_evaluateExpression(wi.variables, statement.value)
    IN  IF statement.variable \in wi.lockedVariables
        THEN W_Continue(wi, wi.variables, wi.lockedVariables, Advance(wi.stack))
        ELSE W_Continue(wi, MapSet(wi.variables, statement.variable, value),
                        wi.lockedVariables, Advance(wi.stack))

\* The assignment that stores nothing when it reports (variables.set moved
\* into the else branch of if (this.verbose)).
W_executeAssignment_Report(wi, statement) ==
    LET value == W_evaluateExpression(wi.variables, statement.value)
        oldValue == Get0(wi.variables, statement.variable)
    IN  IF statement.variable \in wi.lockedVariables
        THEN W_Continue(wi, wi.variables, wi.lockedVariables \ {statement.variable},
                        Advance(wi.stack))
        ELSE IF wi.verbose
        THEN W_Continue(W_log(wi, "  " \o statement.variable \o " := " \o ToString(value)
                                    \o " (was " \o ToString(oldValue) \o ")"),
                        wi.variables, wi.lockedVariables, Advance(wi.stack))
        ELSE W_Continue(wi, MapSet(wi.variables, statement.variable, value),
                        wi.lockedVariables, Advance(wi.stack))

\* case "assignment"
W_executeAssignment(wi, statement) ==
    LET value == W_evaluateExpression(wi.variables, statement.value)
        oldValue == Get0(wi.variables, statement.variable)
    IN  IF statement.variable \in wi.lockedVariables
        THEN W_Continue(W_log(wi, "  [skip] " \o statement.variable \o " := "
                                    \o ToString(value) \o " (using CLI value)"),
                        wi.variables, wi.lockedVariables \ {statement.variable},
                        Advance(wi.stack))
        ELSE W_Continue(W_log(wi, "  " \o statement.variable \o " := " \o ToString(value)
                                    \o " (was " \o ToString(oldValue) \o ")"),
                        MapSet(wi.variables, statement.variable, value),
                        wi.lockedVariables, Advance(wi.stack))

\* case "while": entry of the statement (let safetyCounter = 0; let iteration = 0)
W_enterWhile(wi, statement) ==
    W_Continue(W_log(wi, "  WHILE " \o W_conditionToString(statement.condition)),
               wi.variables, wi.lockedVariables, Append(wi.stack, W_WhileFrame(statement)))

\* The test that leaves the loop at the ceiling instead of throwing (break).
W_testWhile_Break(wi) ==
    LET f == Top(wi.stack)
    IN  IF W_evaluateCondition(wi.variables, f.condition) /\ f.safetyCounter <= WhileSafetyLimit
        THEN W_Continue(wi, wi.variables, wi.lockedVariables,
                        ReplaceTop(wi.stack,
                            [f EXCEPT !.safetyCounter = @ + 1, !.iteration = @ + 1,
                                      !.idx = 1]))
        ELSE W_Continue(wi, wi.variables, wi.lockedVariables, Advance(Pop(wi.stack)))

\* The test that aborts one iteration earlier (safetyCounter++ >= 1_000_000).
W_testWhile_AtLimit(wi) ==
    LET f == Top(wi.stack)
    IN  IF W_evaluateCondition(wi.variables, f.condition)
        THEN IF f.safetyCounter >= WhileSafetyLimit
             THEN W_Throw(wi, "Infinite loop detected (safety limit: 1,000,000 iterations)")
             ELSE W_Continue(wi, wi.variables, wi.lockedVariables,
                             ReplaceTop(wi.stack,
                                 [f EXCEPT !.safetyCounter = @ + 1, !.iteration = @ + 1,
                                           !.idx = 1]))
        ELSE W_Continue(wi, wi.variables, wi.lockedVariables, Advance(Pop(wi.stack)))

\* case "while": one test of the loop condition, with the safety check that
\* follows a true test
W_testWhile(wi) ==
    LET f == Top(wi.stack)
    IN  IF W_evaluateCondition(wi.variables, f.condition)
        THEN IF f.safetyCounter > WhileSafetyLimit
             THEN W_Throw(wi, "Infinite loop detected (safety limit: 1,000,000 iterations)")
             ELSE W_Continue(W_log(wi, "    iteration " \o ToString(f.iteration + 1)),
                             wi.variables, wi.lockedVariables,
                             ReplaceTop(wi.stack,
                                 [f EXCEPT !.safetyCounter = @ + 1, !.iteration = @ + 1,
                                           !.idx = 1]))
        ELSE W_Continue(IF f.iteration = 0 THEN W_log(wi, "    (condition false, skipped)")
                        ELSE wi,
                        wi.variables, wi.lockedVariables, Advance(Pop(wi.stack)))

\* case "if"
W_executeIf(wi, statement) ==
    LET condTrue == W_evaluateCondition(wi.variables, statement.condition)
        logged == W_log(wi, "  IF " \o W_conditionToString(statement.condition) \o " -> "
                                \o (IF condTrue THEN "true" ELSE "false"))
    IN  IF condTrue
        THEN W_Continue(logged, wi.variables, wi.lockedVariables,
                        Append(wi.stack, W_BlockFrame(statement.thenBody)))
        ELSE IF statement.hasElse
        THEN W_Continue(logged, wi.variables, wi.lockedVariables,
                        Append(wi.stack, W_BlockFrame(statement.elseBody)))
        ELSE W_Continue(logged, wi.variables, wi.lockedVariables, Advance(wi.stack))

\* executeStatement(statement), one step: the statement the control stands at,
\* or the condition test of the innermost while statement.
W_step(wi) ==
    IF W_HasStatement(wi)
    THEN CASE W_Statement(wi).type = "assignment" -> W_executeAssignment(wi, W_Statement(wi))
           [] W_Statement(wi).type = "while" -> W_enterWhile(wi, W_Statement(wi))
           [] W_Statement(wi).type = "if" -> W_executeIf(wi, W_Statement(wi))
    ELSE W_testWhile(wi)
\* n steps of an evaluation, or as many as it takes.
RECURSIVE W_run(_, _)
W_run(wi, n) == IF n = 0 \/ wi.status # "running" THEN wi ELSE W_run(W_step(wi), n - 1)

(***************************************************************************)
(* GotoInterpreter (src/src/goto/interpreter.ts).                          *)
(***************************************************************************)
\* this.variables.get(name) || 0
G_getVariableValue(variables, name) ==
    IF MapHas(variables, name) THEN JS_orZero(variables[name]) ELSE 0

RECURSIVE G_evaluateExpression(_, _)
G_evaluateBinaryExpression(variables, expression) ==
    LET left == G_evaluateExpression(variables, expression.left)
        right == G_evaluateExpression(variables, expression.right)
    IN  CASE expression.operator = "+" -> JS_add(left, right)
          [] expression.operator = "-" -> JS_monus(left, right)

G_evaluateExpression(variables, expression) ==
    CASE expression.type = "number" -> expression.value
      [] expression.type = "variable" -> G_getVariableValue(variables, expression.name)
      [] expression.type = "binaryOp" -> G_evaluateBinaryExpression(variables, expression)

\* The comparison with ">=" taken for ">".
G_evaluateCondition_Strict(variables, condition) ==
    LET left == G_evaluateExpression(variables, condition.left)
        right == G_evaluateExpression(variables, condition.right)
    IN  CASE condition.operator = "=" -> left = right
          [] condition.operator = "!=" -> left # right
          [] condition.operator = "<" -> left < right
          [] condition.operator = ">" -> left > right
          [] condition.operator = "<=" -> left <= right
          [] condition.operator = ">=" -> left > right

G_evaluateCondition(variables, condition) ==
    LET left == G_evaluateExpression(variables, condition.left)
        right == G_evaluateExpression(variables, condition.right)
    IN  CASE condition.operator = "=" -> JS_equal(left, right)
          [] condition.operator = "!=" -> ~JS_equal(left, right)
          [] condition.operator = "<" -> JS_less(left, right)
          [] condition.operator = ">" -> JS_less(right, left)
          [] condition.operator = "<=" -> JS_less(left, right) \/ JS_equal(left, right)
          [] condition.operator = ">=" -> JS_less(right, left) \/ JS_equal(left, right)

\* The label map that lets a later instruction take over a label: no check
\* of labelMap.has(instr.label).
RECURSIVE G_buildLabelMap_Overwrite(_, _)
G_buildLabelMap_Overwrite(instructions, k) ==
    IF k = 0 THEN [labelMap |-> EmptyMap, duplicate |-> ""]
    ELSE LET before == G_buildLabelMap_Overwrite(instructions, k - 1)
             label == instructions[k].label
         IN  IF label = "" THEN before
             ELSE [before EXCEPT !.labelMap = MapSet(@, label, k - 1)]

\* The forEach that fills labelMap, over instructions[1..k]: the map, and the
\* first label met twice ("" when there is none).
RECURSIVE G_buildLabelMap(_, _)
G_buildLabelMap(instructions, k) ==
    IF k = 0 THEN [labelMap |-> EmptyMap, duplicate |-> ""]
    ELSE LET before == G_buildLabelMap(instructions, k - 1)
             label == instructions[k].label
         IN  IF before.duplicate # "" \/ label = "" THEN before
             ELSE IF MapHas(before.labelMap, label)
             THEN [before EXCEPT !.duplicate = label]
             ELSE [before EXCEPT !.labelMap = MapSet(@, label, k - 1)]

\* The lookup that takes a label no instruction carries for the first
\* instruction (labelMap.get(label) ?? 0).
G_getLabelIndex_Zero(labelMap, label) == IF MapHas(labelMap, label) THEN labelMap[label] ELSE 0

\* getLabelIndex(label): -1 stands for the thrown "Undefined label".
G_getLabelIndex(labelMap, label) == IF MapHas(labelMap, label) THEN labelMap[label] ELSE -1

\* constructor
G_new ==
    [variables |-> EmptyMap, labelMap |-> EmptyMap, lockedVariables |-> {},
     verbose |-> FALSE, instructions |-> <<>>, pc |-> 0, safetyCounter |-> 0,
     status |-> "idle", error |-> "", halted |-> FALSE, steps |-> 0, console |-> <<>>]

\* setVariable(name, value)
G_setVariable(gi, name, value) == [gi EXCEPT !.variables = MapSet(@, name, value)]

\* evaluate(program, options) up to the main loop: clear, read the options, pin
\* the initial variables, build the label map, pc = 0, safetyCounter = 0.
G_evaluate(gi, program, options) ==
    LET variables == IF options.hasInitial THEN options.initialVariables ELSE EmptyMap
        lockedVariables == IF options.hasInitial THEN DOMAIN options.initialVariables ELSE {}
        built == G_buildLabelMap(program.instructions, Len(program.instructions))
    IN  [variables |-> variables, labelMap |-> built.labelMap,
         lockedVariables |-> lockedVariables, verbose |-> options.verbose,
         instructions |-> program.instructions, pc |-> 0, safetyCounter |-> 0,
         status |-> IF built.duplicate # "" THEN "thrown"
                    ELSE IF 0 < Len(program.instructions) THEN "running" ELSE "returned",
         error |-> IF built.duplicate # "" THEN "Duplicate label" ELSE "",
         halted |-> FALSE, steps |-> 0, console |-> gi.console]

\* return this.variables: the Map of the instance, not a copy.
G_returnValue(gi) == gi.variables

\* evaluate(program, held) where held is the Map an earlier call of this
\* instance returned, this.variables itself: emptied by clear() before it is read.
G_evaluateHeld(gi, program) ==
    G_evaluate(gi, program,
               [hasInitial |-> TRUE, initialVariables |-> EmptyMap, verbose |-> FALSE])

G_Instr(gi) == gi.instructions[gi.pc + 1]
G_AtStatement(gi, type) ==
    /\ gi.status = "running"
    /\ gi.pc < Len(gi.instructions)
    /\ G_Instr(gi).statement.type = type

\* exprToString(expr), condToString(cond), stmtToString(stmt)
RECURSIVE G_exprToString(_)
G_exprToString(expr) ==
    CASE expr.type = "number" -> ToString(expr.value)
      [] expr.type = "variable" -> expr.name
      [] expr.type = "binaryOp" ->
            "(" \o G_exprToString(expr.left) \o " " \o expr.operator \o " "
                \o G_exprToString(expr.right) \o ")"
G_condToString(cond) ==
    G_exprToString(cond.left) \o " " \o cond.operator \o " " \o G_exprToString(cond.right)
G_stmtToString(stmt) ==
    CASE stmt.type = "assignment" -> stmt.variable \o " := " \o G_exprToString(stmt.value)
      [] stmt.type = "goto" -> "GOTO " \o stmt.label
      [] stmt.type = "if_goto" ->
            "IF " \o G_condToString(stmt.condition) \o " THEN GOTO " \o stmt.label
      [] stmt.type = "halt" -> "HALT"

\* if (this.verbose) console.log(line): console is the output written so far.
G_log(gi, line) == IF gi.verbose THEN [gi EXCEPT !.console = Append(@, line)] ELSE gi
\* console.log(`  [${pc}] ${label}${this.stmtToString(instr.statement)}`)
G_logInstr(gi) ==
    G_log(gi, "  [" \o ToString(gi.pc) \o "] "
                \o (IF G_Instr(gi).label # "" THEN G_Instr(gi).label \o ": " ELSE "")
                \o G_stmtToString(G_Instr(gi).statement))

G_Throw(gi, message) ==
    [gi EXCEPT !.status = "thrown", !.error = message, !.steps = @ + 1,
               !.safetyCounter = @ + 1]

\* The end of one pass of the main loop with the new store and pc: safetyCounter
\* was incremented by the check, and while (pc < instructions.length) is tested.
G_Continue(gi, variables, lockedVariables, pc) ==
    [gi EXCEPT !.variables = variables, !.lockedVariables = lockedVariables,
               !.pc = pc, !.safetyCounter = @ + 1, !.steps = @ + 1,
               !.status = IF pc < Len(gi.instructions) THEN "running" ELSE "returned"]

\* The check that aborts one instruction earlier (safetyCounter++ >= 1_000_000).
G_SafetyExceeded_AtLimit(gi) == gi.safetyCounter >= GotoSafetyLimit

\* if (safetyCounter++ > 1_000_000) throw
G_SafetyExceeded(gi) == gi.safetyCounter > GotoSafetyLimit
G_SafetyMessage == "Infinite loop detected (safety limit: 1,000,000 steps)"

\* case "assignment", then if (!jumped) pc++
G_executeAssignment(gi, statement) ==
    LET value == G_evaluateExpression(gi.variables, statement.value)
    IN  IF G_SafetyExceeded(gi) THEN G_Throw(gi, G_SafetyMessage)
        ELSE IF statement.variable \in gi.lockedVariables
        THEN G_Continue(G_log(G_logInstr(gi), "       -> skipped (using CLI value)"),
                        gi.variables, gi.lockedVariables \ {statement.variable}, gi.pc + 1)
        ELSE G_Continue(G_log(G_logInstr(gi), "       -> " \o statement.variable \o " = "
                                                \o ToString(value)),
                        MapSet(gi.variables, statement.variable, value),
                        gi.lockedVariables, gi.pc + 1)

\* The jump that is looked up but not taken (pc++ although jumped).
G_executeGoto_FallThrough(gi, statement) ==
    LET index == G_getLabelIndex(gi.labelMap, statement.label)
    IN  IF G_SafetyExceeded(gi) THEN G_Throw(gi, G_SafetyMessage)
        ELSE IF index < 0 THEN G_Throw(gi, "Undefined label")
        ELSE G_Continue(gi, gi.variables, gi.lockedVariables, gi.pc + 1)

\* The jump that is reported instead of taken when verbose.
G_executeGoto_Report(gi, statement) ==
    LET index == G_getLabelIndex(gi.labelMap, statement.label)
    IN  IF G_SafetyExceeded(gi) THEN G_Throw(gi, G_SafetyMessage)
        ELSE IF index < 0 THEN G_Throw(G_logInstr(gi), "Undefined label")
        ELSE IF gi.verbose
        THEN G_Continue(G_log(G_logInstr(gi), "       -> jump to " \o statement.label
                                                \o " (pc=" \o ToString(index) \o ")"),
                        gi.variables, gi.lockedVariables, gi.pc + 1)
        ELSE G_Continue(gi, gi.variables, gi.lockedVariables, index)

\* case "goto"
G_executeGoto(gi, statement) ==
    LET index == G_getLabelIndex(gi.labelMap, statement.label)
    IN  IF G_SafetyExceeded(gi) THEN G_Throw(gi, G_SafetyMessage)
        ELSE IF index < 0 THEN G_Throw(G_logInstr(gi), "Undefined label")
        ELSE G_Continue(G_log(G_logInstr(gi), "       -> jump to " \o statement.label
                                                \o " (pc=" \o ToString(index) \o ")"),
                        gi.variables, gi.lockedVariables, index)

\* The conditional jump that is never taken.
G_executeIfGoto_Never(gi, statement) ==
    IF G_SafetyExceeded(gi) THEN G_Throw(gi, G_SafetyMessage)
    ELSE G_Continue(gi, gi.variables, gi.lockedVariables, gi.pc + 1)

\* case "if_goto"
G_executeIfGoto(gi, statement) ==
    LET condTrue == G_evaluateCondition(gi.variables, statement.condition)
        index == G_getLabelIndex(gi.labelMap, statement.label)
    IN  IF G_SafetyExceeded(gi) THEN G_Throw(gi, G_SafetyMessage)
        ELSE IF condTrue
        THEN IF index < 0 THEN G_Throw(G_logInstr(gi), "Undefined label")
             ELSE G_Continue(G_log(G_logInstr(gi),
                                   "       -> true, jump to " \o statement.label
                                       \o " (pc=" \o ToString(index) \o ")"),
                             gi.variables, gi.lockedVariables, index)
        ELSE G_Continue(G_log(G_logInstr(gi), "       -> false, continue"),
                        gi.variables, gi.lockedVariables, gi.pc + 1)

\* HALT taken for an instruction without effect: no return, pc++.
G_executeHalt_Continue(gi) ==
    IF G_SafetyExceeded(gi) THEN G_Throw(gi, G_SafetyMessage)
    ELSE G_Continue(gi, gi.variables, gi.lockedVariables, gi.pc + 1)

\* HALT as a jump past the last instruction: the main loop ends by its
\* condition, not by the return of case "halt".
G_executeHalt_PastEnd(gi) ==
    IF G_SafetyExceeded(gi) THEN G_Throw(gi, G_SafetyMessage)
    ELSE G_Continue(gi, gi.variables, gi.lockedVariables, Len(gi.instructions))

\* case "halt": return this.variables
G_executeHalt(gi) ==
    IF G_SafetyExceeded(gi) THEN G_Throw(gi, G_SafetyMessage)
    ELSE [G_log(G_logInstr(gi), "       -> HALT")
            EXCEPT !.status = "returned", !.safetyCounter = @ + 1, !.steps = @ + 1,
                   !.halted = TRUE]

\* One pass of the main loop: switch (instr.statement.type).
G_step(gi) ==
    CASE G_Instr(gi).statement.type = "assignment" ->
            G_executeAssignment(gi, G_Instr(gi).statement)
      [] G_Instr(gi).statement.type = "goto" -> G_executeGoto(gi, G_Instr(gi).statement)
      [] G_Instr(gi).statement.type = "if_goto" -> G_executeIfGoto(gi, G_Instr(gi).statement)
      [] G_Instr(gi).statement.type = "halt" -> G_executeHalt(gi)
\* n passes of the main loop, or as many as the evaluation takes.
RECURSIVE G_run(_, _)
G_run(gi, n) == IF n = 0 \/ gi.status # "running" THEN gi ELSE G_run(G_step(gi), n - 1)

(***************************************************************************)
(* LoopInterpreter (src/loop/interpreter.ts is not among the sources: the  *)
(* evaluator of section 4.1 of the specification).                         *)
(***************************************************************************)
\* The stores of the LOOP evaluator are Map<string, number> as well (the
\* result of run in src/src/cli.ts): + and monus, max(0, a - b), of section
\* 4.1 are computed on JavaScript numbers, as the two evaluators of src/ do.
L_getVariableValue(variables, name) == IF MapHas(variables, name) THEN variables[name] ELSE 0

RECURSIVE L_evaluateExpression(_, _)
L_evaluateExpression(variables, expression) ==
    CASE expression.type = "number" -> expression.value
      [] expression.type = "variable" -> L_getVariableValue(variables, expression.name)
      [] expression.type = "binaryOp" ->
            LET left == L_evaluateExpression(variables, expression.left)
                right == L_evaluateExpression(variables, expression.right)
            IN  CASE expression.operator = "+" -> JS_add(left, right)
                  [] expression.operator = "-" -> JS_monus(left, right)

\* A loop frame holds the count n read at entry and the number of the
\* iteration in progress.
L_BlockFrame(body) == [kind |-> "block", body |-> body, idx |-> 1, count |-> 0, iteration |-> 0]
L_LoopFrame(statement, n) ==
    [kind |-> "loop", body |-> statement.body, idx |-> Len(statement.body) + 1,
     count |-> n, iteration |-> 0]

RECURSIVE L_Unwind(_)
L_Unwind(stack) ==
    IF stack = <<>> THEN stack
    ELSE LET f == Top(stack)
         IN  IF f.idx <= Len(f.body) THEN stack
             ELSE IF f.kind = "loop" /\ f.iteration < f.count
             THEN L_Unwind(ReplaceTop(stack, [f EXCEPT !.iteration = @ + 1, !.idx = 1]))
             ELSE IF Len(stack) = 1 THEN <<>>
             ELSE L_Unwind(Advance(Pop(stack)))

L_HasStatement(li) == li.status = "running" /\ li.stack # <<>>
L_Statement(li) == Top(li.stack).body[Top(li.stack).idx]

L_Continue(li, variables, lockedVariables, stack) ==
    LET s == L_Unwind(stack)
    IN  [li EXCEPT !.variables = variables, !.lockedVariables = lockedVariables,
                   !.stack = s, !.steps = @ + 1,
                   !.status = IF s = <<>> THEN "returned" ELSE "running"]

L_new ==
    [variables |-> EmptyMap, lockedVariables |-> {}, verbose |-> FALSE,
     stack |-> <<>>, status |-> "idle", steps |-> 0]

L_evaluate(li, program, options) ==
    LET variables == IF options.hasInitial THEN options.initialVariables ELSE EmptyMap
        lockedVariables == IF options.hasInitial THEN DOMAIN options.initialVariables ELSE {}
        stack == L_Unwind(<<L_BlockFrame(program.statements)>>)
    IN  [variables |-> variables, lockedVariables |-> lockedVariables,
         verbose |-> options.verbose, stack |-> stack,
         status |-> IF stack = <<>> THEN "returned" ELSE "running", steps |-> 0]

\* Assignment under the write-once lock.
L_executeAssignment(li, statement) ==
    LET value == L_evaluateExpression(li.variables, statement.value)
    IN  IF statement.variable \in li.lockedVariables
        THEN L_Continue(li, li.variables, li.lockedVariables \ {statement.variable},
                        Advance(li.stack))
        ELSE L_Continue(li, MapSet(li.variables, statement.variable, value),
                        li.lockedVariables, Advance(li.stack))

\* LOOP var DO body END: var is read once, at entry.
L_executeLoop(li, statement) ==
    LET n == L_getVariableValue(li.variables, statement.variable)
    IN  L_Continue(li, li.variables, li.lockedVariables,
                   Append(li.stack, L_LoopFrame(statement, n)))

(***************************************************************************)
(* Fresh names (section 4.2 of the specification; src/translators is not   *)
(* among the sources).                                                     *)
(***************************************************************************)
VarName(k) == "x" \o ToString(k)
LabelName(k) == "M" \o ToString(k)

RECURSIVE ExprNames(_)
ExprNames(e) ==
    CASE e.type = "number" -> {}
      [] e.type = "variable" -> {e.name}
      [] e.type = "binaryOp" -> ExprNames(e.left) \cup ExprNames(e.right)
CondNames(c) == ExprNames(c.left) \cup ExprNames(c.right)

\* Every identifier of a statement list, nested bodies included.
RECURSIVE StmtNames(_)
BlockNames(stmts) == UNION {StmtNames(stmts[i]) : i \in 1..Len(stmts)}
StmtNames(s) ==
    CASE s.type = "assignment" -> {s.variable} \cup ExprNames(s.value)
      [] s.type = "loop" -> {s.variable} \cup BlockNames(s.body)
      [] s.type = "while" -> CondNames(s.condition) \cup BlockNames(s.body)
      [] s.type = "if" ->
            CondNames(s.condition) \cup BlockNames(s.thenBody) \cup BlockNames(s.elseBody)
      [] s.type = "goto" -> {}
      [] s.type = "if_goto" -> CondNames(s.condition)
      [] s.type = "halt" -> {}
InstrNames(instructions) ==
    UNION {StmtNames(instructions[i].statement) : i \in 1..Len(instructions)}

\* The counter taken as it stands, the names in use not looked at.
FreshIndex_NoScan(used, k) == k

\* The first counter value from k on whose name is free.
RECURSIVE FreshIndex(_, _)
FreshIndex(used, k) == IF VarName(k) \notin used THEN k ELSE FreshIndex(used, k + 1)

(***************************************************************************)
(* LoopToWhileTranslator (section 4.3).                                    *)
(***************************************************************************)
\* c := var; WHILE c != 0 DO <body>; c := c - 1 END
L2W_Loop(c, variable, body) ==
    << Assignment(c, Var(variable)),
       While(Cond(Var(c), "!=", Num(0)),
             body \o <<Assignment(c, BinaryOp("-", Var(c), Num(1)))>>) >>

\* The translation of a statement list with the names in use and the counter
\* threaded through: [out, used, counter].
RECURSIVE L2W_Block(_, _, _)
L2W_Block(stmts, used, counter) ==
    IF stmts = <<>> THEN [out |-> <<>>, used |-> used, counter |-> counter]
    ELSE LET s == Head(stmts)
         IN  IF s.type = "loop"
             THEN LET k == FreshIndex(used, counter)
                      c == VarName(k)
                      body == L2W_Block(s.body, used \cup {c}, k + 1)
                      rest == L2W_Block(Tail(stmts), body.used, body.counter)
                  IN  [rest EXCEPT !.out = L2W_Loop(c, s.variable, body.out) \o @]
             ELSE LET rest == L2W_Block(Tail(stmts), used, counter)
                  IN  [rest EXCEPT !.out = <<s>> \o @]

LoopToWhile(program) ==
    [statements |-> L2W_Block(program.statements, BlockNames(program.statements), 0).out]

(***************************************************************************)
(* WhileToGotoTranslator (section 4.4).                                    *)
(***************************************************************************)
\* NOT(cond): the comparison operator negated.
NegateOperator(op) ==
    CASE op = "=" -> "!="
      [] op = "!=" -> "="
      [] op = "<" -> ">="
      [] op = ">=" -> "<"
      [] op = ">" -> "<="
      [] op = "<=" -> ">"
Negate(c) == [c EXCEPT !.operator = NegateOperator(@)]

\* Emission: a sequence of [labels, statement], labels being the numbers of the
\* labels attached to the instruction, with the label counter and the labels
\* waiting for the next instruction threaded through: [out, counter, pending].
Emit(labels, statement) == [labels |-> labels, statement |-> statement]

RECURSIVE W2G_Block(_, _, _)
W2G_Block(stmts, counter, pending) ==
    IF stmts = <<>> THEN [out |-> <<>>, counter |-> counter, pending |-> pending]
    ELSE LET s == Head(stmts)
             this ==
                CASE s.type = "assignment" ->
                        [out |-> <<Emit(pending, s)>>, counter |-> counter, pending |-> {}]
                  [] s.type = "while" ->
                        LET start == counter
                            end == counter + 1
                            body == W2G_Block(s.body, counter + 2, {})
                        IN  [out |-> <<Emit(pending \cup {start},
                                            IfGoto(Negate(s.condition), end))>>
                                     \o body.out
                                     \o <<Emit(body.pending, Goto(start))>>,
                             counter |-> body.counter, pending |-> {end}]
                  [] s.type = "if" /\ ~s.hasElse ->
                        LET end == counter
                            body == W2G_Block(s.thenBody, counter + 1, {})
                        IN  [out |-> <<Emit(pending, IfGoto(Negate(s.condition), end))>>
                                     \o body.out,
                             counter |-> body.counter, pending |-> body.pending \cup {end}]
                  [] s.type = "if" /\ s.hasElse ->
                        LET else == counter
                            end == counter + 1
                            thenB == W2G_Block(s.thenBody, counter + 2, {})
                            elseB == W2G_Block(s.elseBody, thenB.counter, {else})
                        IN  [out |-> <<Emit(pending, IfGoto(Negate(s.condition), else))>>
                                     \o thenB.out
                                     \o <<Emit(thenB.pending, Goto(end))>>
                                     \o elseB.out,
                             counter |-> elseB.counter, pending |-> elseB.pending \cup {end}]
             rest == W2G_Block(Tail(stmts), this.counter, this.pending)
         IN  [rest EXCEPT !.out = this.out \o @]

Min(S) == CHOOSE k \in S : \A j \in S : k <= j

\* The label an instruction carries: one of those attached to it.
W2G_Carried(labels) == IF labels = {} THEN "" ELSE LabelName(Min(labels))
\* The jump that names the label it was given, whichever label the
\* instruction carries.
W2G_Target_Own(out, k) == LabelName(k)
\* A jump to label k goes to the instruction label k is attached to.
W2G_Target(out, k) ==
    LET i == CHOOSE j \in 1..Len(out) : k \in out[j].labels
    IN  W2G_Carried(out[i].labels)
W2G_Resolve(out) ==
    [i \in 1..Len(out) |->
        LET s == out[i].statement
        IN  Instr(W2G_Carried(out[i].labels),
                  CASE s.type = "goto" -> Goto(W2G_Target(out, s.label))
                    [] s.type = "if_goto" -> IfGoto(s.condition, W2G_Target(out, s.label))
                    [] OTHER -> s)]

\* The flattened statements, then the trailing HALT, which takes the labels
\* still waiting.
WhileToGoto(program) ==
    LET body == W2G_Block(program.statements, 1, {})
    IN  [instructions |-> W2G_Resolve(body.out \o <<Emit(body.pending, Halt)>>)]

(***************************************************************************)
(* GotoToWhileTranslator (section 4.5).                                    *)
(***************************************************************************)
\* label -> index of the instruction carrying it; n for a label no instruction
\* carries.
G2W_Index(instructions, label) ==
    LET at == {i \in 1..Len(instructions) : instructions[i].label = label}
    IN  IF at = {} THEN Len(instructions) ELSE Min(at) - 1

\* The effect of instruction i (0-based) and its pc update.
G2W_Effect(instructions, pcVar, i) ==
    LET s == instructions[i + 1].statement
        n == Len(instructions)
        next == Assignment(pcVar, BinaryOp("+", Var(pcVar), Num(1)))
    IN  CASE s.type = "assignment" -> <<s, next>>
          [] s.type = "goto" -> <<Assignment(pcVar, Num(G2W_Index(instructions, s.label)))>>
          [] s.type = "if_goto" ->
                <<IfElse(s.condition,
                         <<Assignment(pcVar, Num(G2W_Index(instructions, s.label)))>>,
                         <<next>>)>>
          [] s.type = "halt" -> <<Assignment(pcVar, Num(n))>>

\* IF pc = i THEN <effect i> ELSE <dispatch from i + 1> END; the final else
\* halts the simulation.
RECURSIVE G2W_Dispatch(_, _, _)
G2W_Dispatch(instructions, pcVar, i) ==
    IF i = Len(instructions) THEN <<Assignment(pcVar, Num(Len(instructions)))>>
    ELSE <<IfElse(Cond(Var(pcVar), "=", Num(i)),
                  G2W_Effect(instructions, pcVar, i),
                  G2W_Dispatch(instructions, pcVar, i + 1))>>

G2W_PcVar(program) == VarName(FreshIndex(InstrNames(program.instructions), 0))

\* pc := 0; WHILE pc != n DO <dispatch> END
GotoToWhile(program) ==
    LET instructions == program.instructions
        pcVar == G2W_PcVar(program)
    IN  [statements |->
            << Assignment(pcVar, Num(0)),
               While(Cond(Var(pcVar), "!=", Num(Len(instructions))),
                     G2W_Dispatch(instructions, pcVar, 0)) >>]

(***************************************************************************)
(* The programs and inputs the model runs.                                 *)
(***************************************************************************)
Values == 0..MaxVal
Inc(v) == Assignment(v, BinaryOp("+", Var(v), Num(1)))
Dec(v) == Assignment(v, BinaryOp("-", Var(v), Num(1)))
Copy(v, w) == Assignment(v, Var(w))
\* x0 := a; x1 := b
Prelude(a, b) == <<Assignment("x0", Num(a)), Assignment("x1", Num(b))>>

NoOptions == [hasInitial |-> FALSE, initialVariables |-> EmptyMap, verbose |-> FALSE]
WithInitial(m) == [hasInitial |-> TRUE, initialVariables |-> m, verbose |-> FALSE]

\* Every map from a subset of `names` to Values.
MapsOver(names) == UNION {[d -> Values] : d \in SUBSET names}

\* LOOP: loops over assignments, loops over such loops, two loops in a row.
LoopAtoms == {Inc("x1"), Dec("x0"), Copy("x0", "x1")}
LoopBodies0 == {<<>>} \cup {<<a>> : a \in LoopAtoms} \cup {<<a, b>> : a, b \in LoopAtoms}
Loops1 == {Loop(v, b) : v \in {"x0", "x1"}, b \in LoopBodies0}
LoopsFlat == {Loop(v, <<a>>) : v \in {"x0", "x1"}, a \in LoopAtoms}
LoopBodies1 ==
    {<<l>> : l \in LoopsFlat} \cup {<<l, a>> : l \in LoopsFlat, a \in LoopAtoms}
        \cup {<<a, l>> : a \in LoopAtoms, l \in LoopsFlat}
Loops2 == {Loop(v, b) : v \in {"x0", "x1"}, b \in LoopBodies1}
LoopKernels ==
    {<<l>> : l \in Loops1 \cup Loops2} \cup {<<l, m>> : l, m \in LoopsFlat}
LoopPrograms ==
    {[statements |-> Prelude(a, b) \o k] : a \in Values, b \in Values, k \in LoopKernels}
\* The programs run with initial variables: with and without assignments
\* ahead of the loop.
LoopInputKernels ==
    {<<l>> : l \in LoopsFlat}
        \cup {<<Loop("x0", <<Loop("x1", <<Inc("x1")>>), Dec("x0")>>)>>,
              <<Loop("x1", <<Inc("x0")>>)>>,
              <<Loop("x1", <<Inc("x0")>>), Loop("x0", <<Inc("x1")>>)>>}
LoopInputPrograms ==
    {[statements |-> k] : k \in LoopInputKernels}
        \cup {[statements |-> Prelude(1, 2) \o k] : k \in LoopInputKernels}

\* WHILE: loops and conditionals over assignments under each comparison, a
\* construct inside a construct (first, last or alone in its body), two
\* constructs in a row.
Operators == {"=", "!=", "<", ">", "<=", ">="}
WhileAtoms == {Dec("x0"), Inc("x1")}
WhileConds == {Cond(Var("x0"), op, Var("x1")) : op \in Operators}
NotZero(v) == Cond(Var(v), "!=", Num(0))
WhileFlat ==
    {While(c, <<a>>) : c \in WhileConds \cup {NotZero("x0")}, a \in WhileAtoms}
        \cup {While(NotZero("x0"), <<Inc("x1"), Dec("x0")>>)}
        \cup {If(c, <<a>>) : c \in WhileConds, a \in WhileAtoms}
        \cup {IfElse(c, <<a>>, <<b>>) : c \in WhileConds, a \in WhileAtoms, b \in WhileAtoms}
WhileInner ==
    { While(Cond(Var("x1"), "<", Var("x0")), <<Inc("x1")>>),
      While(NotZero("x0"), <<Dec("x0")>>),
      If(Cond(Var("x0"), "=", Var("x1")), <<Inc("x1")>>),
      IfElse(Cond(Var("x0"), ">", Var("x1")), <<Inc("x1")>>, <<Dec("x0")>>) }
WhileBodies1 ==
    {<<s>> : s \in WhileInner} \cup {<<s, a>> : s \in WhileInner, a \in WhileAtoms}
        \cup {<<a, s>> : a \in WhileAtoms, s \in WhileInner}
WhileNested ==
    {While(c, b) : c \in {NotZero("x0"), Cond(Var("x1"), "<=", Var("x0"))}, b \in WhileBodies1}
        \cup {If(Cond(Var("x0"), ">=", Var("x1")), b) : b \in WhileBodies1}
        \cup {IfElse(Cond(Var("x0"), "<", Var("x1")), b, <<Dec("x0")>>) : b \in WhileBodies1}
        \cup {IfElse(Cond(Var("x0"), "<", Var("x1")), <<Inc("x1")>>, b) : b \in WhileBodies1}
WhileKernels ==
    {<<s>> : s \in WhileFlat \cup WhileNested} \cup {<<s, t>> : s, t \in WhileInner}
WhilePrograms ==
    {[statements |-> Prelude(a, b) \o k] : a \in Values, b \in Values, k \in WhileKernels}
WhileInputKernels ==
    {<<s>> : s \in WhileInner}
        \cup {<<While(NotZero("x0"), <<Inc("x1"), Dec("x0")>>)>>,
              <<While(NotZero("x0"), <<If(Cond(Var("x1"), "<", Num(2)), <<Inc("x1")>>),
                                       Dec("x0")>>)>>}
WhileInputPrograms ==
    {[statements |-> k] : k \in WhileInputKernels}
        \cup {[statements |-> Prelude(1, 2) \o k] : k \in WhileInputKernels}

\* GOTO: every program of up to three instructions after x0 := a, an
\* instruction carrying the label M<i> of its position i when a jump names it;
\* and the programs of the test suite.
GotoKernelStatements(n) ==
    {Dec("x0"), Inc("x1"), Halt}
        \cup {Goto(LabelName(j)) : j \in 1..n}
        \cup {IfGoto(Cond(Var("x0"), "=", Num(0)), LabelName(j)) : j \in 1..n}
Targets(stmts) ==
    {stmts[i].label : i \in {j \in 1..Len(stmts) : stmts[j].type \in {"goto", "if_goto"}}}
Labelled(stmts) ==
    [i \in 1..Len(stmts) |->
        Instr(IF LabelName(i) \in Targets(stmts) THEN LabelName(i) ELSE "", stmts[i])]
GotoKernels ==
    UNION {{Labelled(k) : k \in [1..n -> GotoKernelStatements(n)]} : n \in 1..3}
GotoPrelude(a, b) == <<Instr("", Assignment("x0", Num(a))), Instr("", Assignment("x1", Num(b)))>>
IsZero(v) == Cond(Var(v), "=", Num(0))
\* WHILE programs whose constructs end at the same point: an IF or WHILE that
\* is the last statement of an IF branch or of a WHILE body, a WHILE or IF
\* followed at once by a WHILE, a construct that is the last statement of the
\* program or is followed by an assignment.
WhileJoinKernels ==
    LET down(v) == While(NotZero(v), <<Dec(v)>>)
        set == If(IsZero("x1"), <<Inc("x2")>>)
    IN  { <<If(NotZero("x0"), <<set>>)>>,
          <<If(NotZero("x0"), <<Inc("x1"), down("x0")>>)>>,
          <<If(IsZero("x0"), <<If(NotZero("x1"), <<down("x1")>>)>>)>>,
          <<down("x0"), down("x1")>>,
          <<set, down("x0")>>,
          <<If(NotZero("x0"), <<set, down("x0")>>)>>,
          <<IfElse(NotZero("x0"), <<down("x0")>>, <<set>>)>>,
          <<IfElse(IsZero("x0"), <<set>>, <<IfElse(IsZero("x1"), <<Inc("x2")>>, <<down("x1")>>)>>),
            down("x1")>>,
          <<While(NotZero("x0"), <<Dec("x0"), down("x1")>>)>>,
          <<While(NotZero("x0"), <<Dec("x0"), If(NotZero("x1"), <<down("x1")>>)>>), down("x1")>> }
WhileJoinPrograms ==
    {[statements |-> Prelude(a, b) \o k \o t] :
        a \in Values, b \in Values, k \in WhileJoinKernels, t \in {<<>>, <<Inc("x2")>>}}

\* countdown; forward jump over dead code; HALT before the last instruction;
\* several labels, jumps in both directions; a conditional branch
GotoExamples ==
    { << Instr("M1", IfGoto(IsZero("x0"), "M2")), Instr("", Inc("x1")), Instr("", Dec("x0")),
         Instr("", Goto("M1")), Instr("M2", Halt) >>,
      << Instr("", Goto("M1")), Instr("", Inc("x1")), Instr("M1", Inc("x0")), Instr("", Halt) >>,
      << Instr("", Inc("x0")), Instr("", Halt), Instr("", Inc("x0")) >>,
      << Instr("", Goto("M1")), Instr("M3", Inc("x0")), Instr("", Halt),
         Instr("M2", Inc("x1")), Instr("", Goto("M3")), Instr("M1", Copy("x1", "x0")),
         Instr("", Goto("M2")) >>,
      << Instr("", IfGoto(Cond(Var("x0"), "=", Num(MaxVal)), "M1")), Instr("", Inc("x1")),
         Instr("", Goto("M2")), Instr("M1", Dec("x1")), Instr("M2", Halt) >> }
GotoPrograms ==
    {[instructions |-> <<Instr("", Assignment("x0", Num(a)))>> \o k] :
            a \in Values, k \in GotoKernels}
        \cup {[instructions |-> GotoPrelude(a, b) \o k] :
                a \in Values, b \in Values, k \in GotoExamples}
GotoInputPrograms ==
    {[instructions |-> k] : k \in GotoExamples}
        \cup {[instructions |-> GotoPrelude(1, 2) \o k] : k \in GotoExamples}

\* The names of initial variables: those of the programs, and the first name
\* that is free in them.
InputNames == {"x0", "x1"}
InitialMaps == MapsOver(InputNames) \cup {[d \in {VarName(2)} |-> v] : v \in Values}

\* One run of the flow: a program of a language, the options of its
\* evaluations and the number of steps its evaluation is followed for.
Job(lang, program, options, follow) ==
    [lang |-> lang, program |-> program, options |-> options, follow |-> follow]

\* x0 := n; WHILE x0 != 0 DO x0 := x0 - 1 END
CountdownFrom(n) ==
    [statements |-> <<Assignment("x0", Num(n)), While(NotZero("x0"), <<Dec("x0")>>)>>]
Countdowns == {CountdownFrom(n) : n \in 1..(MaxVal + 1)}

\* Programs whose names leave gaps: a fresh name has to skip a name in use
\* (the last LOOP program is the one of "fresh variable does not clash with
\* existing high-index variables").
LoopGapPrograms ==
    { [statements |-> << Assignment("x0", Num(1)), Assignment("x3", Num(2)),
                         Loop("x0", <<Loop("x3", <<Inc("x1")>>)>>) >>],
      [statements |-> << Assignment("x2", Num(2)), Loop("x2", <<Inc("x1")>>),
                         Loop("x1", <<Inc("x4")>>) >>],
      [statements |-> << Assignment("x0", Num(2)), Assignment("x1", Num(0)),
                         Assignment("x2", Num(0)), Assignment("x3", Num(0)),
                         Assignment("x4", Num(0)), Loop("x0", <<Inc("x1")>>) >>] }
GotoGapPrograms ==
    { [instructions |-> << Instr("", Assignment("x2", Num(1))),
                           Instr("M1", IfGoto(IsZero("x2"), "M2")), Instr("", Inc("x0")),
                           Instr("", Dec("x2")), Instr("", Goto("M1")), Instr("M2", Halt) >>] }

\* GOTO programs in which two instructions carry the label M1: no jump names
\* it; a jump names it; both instructions are behind a HALT; the first
\* instruction carries it and jumps to it.
GotoDuplicatePrograms ==
    { [instructions |-> << Instr("M1", Inc("x0")), Instr("M1", Inc("x1")), Instr("", Halt) >>],
      [instructions |-> << Instr("", Goto("M1")), Instr("M1", Inc("x0")),
                           Instr("M1", Inc("x1")) >>],
      [instructions |-> << Instr("", Assignment("x0", Num(1))), Instr("", Halt),
                           Instr("M1", Inc("x0")), Instr("M1", Inc("x1")) >>],
      [instructions |-> << Instr("M1", IfGoto(IsZero("x0"), "M1")), Instr("M2", Inc("x0")),
                           Instr("M1", Halt) >>] }

\* GOTO programs with a jump to M9, a label no instruction carries: taken
\* at once; behind a condition that holds for a = 0 only; behind a HALT;
\* jumped over.
GotoUndefinedPrograms ==
    { [instructions |-> << Instr("", Inc("x0")), Instr("", Goto("M9")), Instr("", Inc("x0")) >>] }
        \cup { [instructions |-> << Instr("", Assignment("x0", Num(a))),
                                    Instr("", IfGoto(IsZero("x0"), "M9")),
                                    Instr("", Inc("x1")), Instr("", Halt) >>] : a \in Values }
        \cup { [instructions |-> << Instr("", Inc("x0")), Instr("", Halt),
                                    Instr("", Goto("M9")) >>],
               [instructions |-> << Instr("", Goto("M1")), Instr("", Goto("M9")),
                                    Instr("M1", Inc("x0")) >> ] }

\* The minimal example of the README: LOOP x1 DO x0 := x0 + 1; END, run with
\* -x0=3 -x1=4.
AdditionExample == [statements |-> <<Loop("x1", <<Inc("x0")>>)>>]
AdditionInput == MapOfPairs(<<<<"x0", 3>>, <<"x1", 4>>>>)

Jobs ==
    {Job("loop", p, NoOptions, MaxSteps) : p \in LoopPrograms \cup LoopGapPrograms}
        \cup {Job("loop", AdditionExample, WithInitial(AdditionInput), MaxSteps)}
        \cup {Job("while", p, NoOptions, MaxSteps) : p \in WhilePrograms \cup Countdowns}
        \cup {Job("goto", p, NoOptions, MaxSteps) :
                p \in GotoPrograms \cup GotoGapPrograms \cup GotoDuplicatePrograms
                        \cup GotoUndefinedPrograms}
        \cup {Job("loop", p, WithInitial(m), MaxSteps) : p \in LoopInputPrograms, m \in InitialMaps}
        \cup {Job("while", p, WithInitial(m), MaxSteps) : p \in WhileInputPrograms, m \in InitialMaps}
        \cup {Job("goto", p, WithInitial(m), MaxSteps) : p \in GotoInputPrograms, m \in InitialMaps}

(***************************************************************************)
(* State: the input, the stage of the translate-and-evaluate flow, one      *)
(* interpreter instance per language, the translations and the results.     *)
(* `history` is not program state: it records, for the evaluation under     *)
(* way, the targets of the assignments executed so far, the store at the    *)
(* entry of each active loop statement (by depth of its frame) and the      *)
(* index of the GOTO instruction executed last.                             *)
(***************************************************************************)
VARIABLES job, stage, li, wi, gi, whileAST, gotoAST, original, whileResult, gotoResult, history
vars == <<job, stage, li, wi, gi, whileAST, gotoAST, original, whileResult, gotoResult, history>>

NoHistory == [assigned |-> {}, entered |-> EmptyMap, prev |-> -1]

NoResult == [status |-> "none", variables |-> EmptyMap]
ResultOf(interp) == [status |-> interp.status, variables |-> interp.variables]
NoProgram == [statements |-> <<>>, instructions |-> <<>>]

\* A translation takes at most this many steps for each step of its source.
TargetFactor == 40

\* Steps an evaluation is followed for: job.follow for the source program,
\* TargetFactor times as many for a translation.
L_StepLimit == job.follow
W_StepLimit == IF stage = "source" THEN job.follow ELSE job.follow * TargetFactor
G_StepLimit == IF stage = "source" THEN job.follow ELSE job.follow * TargetFactor

InitWith(jobs) ==
    /\ job \in jobs
    /\ stage = "start"
    /\ li = L_new
    /\ wi = W_new
    /\ gi = G_new
    /\ whileAST = NoProgram
    /\ gotoAST = NoProgram
    /\ original = NoResult
    /\ whileResult = NoResult
    /\ gotoResult = NoResult
    /\ history = NoHistory

Init == InitWith(Jobs)

\* new LoopInterpreter().evaluate(ast, options)
RunLoop ==
    /\ stage = "start"
    /\ job.lang = "loop"
    /\ li' = L_evaluate(L_new, job.program, job.options)
    /\ stage' = "source"
    /\ UNCHANGED <<job, wi, gi, whileAST, gotoAST, original, whileResult, gotoResult>>
    /\ history' = NoHistory

\* new WhileInterpreter().evaluate(ast, options)
RunWhile ==
    /\ stage = "start"
    /\ job.lang = "while"
    /\ wi' = W_evaluate(W_new, job.program, job.options)
    /\ stage' = "source"
    /\ UNCHANGED <<job, li, gi, whileAST, gotoAST, original, whileResult, gotoResult>>
    /\ history' = NoHistory

\* new GotoInterpreter().evaluate(ast, options)
RunGoto ==
    /\ stage = "start"
    /\ job.lang = "goto"
    /\ gi' = G_evaluate(G_new, job.program, job.options)
    /\ stage' = "source"
    /\ UNCHANGED <<job, li, wi, whileAST, gotoAST, original, whileResult, gotoResult>>
    /\ history' = NoHistory

LoopAssignment ==
    /\ L_HasStatement(li)
    /\ li.steps < L_StepLimit
    /\ L_Statement(li).type = "assignment"
    /\ li' = L_executeAssignment(li, L_Statement(li))
    /\ UNCHANGED <<job, stage, wi, gi, whileAST, gotoAST, original, whileResult, gotoResult, history>>

LoopLoop ==
    /\ L_HasStatement(li)
    /\ li.steps < L_StepLimit
    /\ L_Statement(li).type = "loop"
    /\ li' = L_executeLoop(li, L_Statement(li))
    /\ UNCHANGED <<job, stage, wi, gi, whileAST, gotoAST, original, whileResult, gotoResult>>
    /\ history' = [history EXCEPT !.entered = MapSet(@, Len(li.stack) + 1, li.variables)]

WhileAssignment ==
    /\ W_HasStatement(wi)
    /\ wi.steps < W_StepLimit
    /\ W_Statement(wi).type = "assignment"
    /\ wi' = W_executeAssignment(wi, W_Statement(wi))
    /\ UNCHANGED <<job, stage, li, gi, whileAST, gotoAST, original, whileResult, gotoResult>>
    /\ history' = [history EXCEPT !.assigned = @ \cup {W_Statement(wi).variable}]

WhileEnter ==
    /\ W_HasStatement(wi)
    /\ wi.steps < W_StepLimit
    /\ W_Statement(wi).type = "while"
    /\ wi' = W_enterWhile(wi, W_Statement(wi))
    /\ UNCHANGED <<job, stage, li, gi, whileAST, gotoAST, original, whileResult, gotoResult>>
    /\ history' = [history EXCEPT !.entered = MapSet(@, Len(wi.stack) + 1, wi.variables)]

WhileTest ==
    /\ wi.status = "running"
    /\ wi.steps < W_StepLimit
    /\ Top(wi.stack).kind = "while"
    /\ Top(wi.stack).idx = 0
    /\ wi' = W_testWhile(wi)
    /\ UNCHANGED <<job, stage, li, gi, whileAST, gotoAST, original, whileResult, gotoResult, history>>

WhileIf ==
    /\ W_HasStatement(wi)
    /\ wi.steps < W_StepLimit
    /\ W_Statement(wi).type = "if"
    /\ wi' = W_executeIf(wi, W_Statement(wi))
    /\ UNCHANGED <<job, stage, li, gi, whileAST, gotoAST, original, whileResult, gotoResult, history>>

GotoAssignment ==
    /\ G_AtStatement(gi, "assignment")
    /\ gi.steps < G_StepLimit
    /\ gi' = G_executeAssignment(gi, G_Instr(gi).statement)
    /\ UNCHANGED <<job, stage, li, wi, whileAST, gotoAST, original, whileResult, gotoResult>>
    /\ history' = [history EXCEPT !.assigned = @ \cup {G_Instr(gi).statement.variable},
                                  !.prev = gi.pc]

GotoGoto ==
    /\ G_AtStatement(gi, "goto")
    /\ gi.steps < G_StepLimit
    /\ gi' = G_executeGoto(gi, G_Instr(gi).statement)
    /\ UNCHANGED <<job, stage, li, wi, whileAST, gotoAST, original, whileResult, gotoResult>>
    /\ history' = [history EXCEPT !.prev = gi.pc]

GotoIfGoto ==
    /\ G_AtStatement(gi, "if_goto")
    /\ gi.steps < G_StepLimit
    /\ gi' = G_executeIfGoto(gi, G_Instr(gi).statement)
    /\ UNCHANGED <<job, stage, li, wi, whileAST, gotoAST, original, whileResult, gotoResult>>
    /\ history' = [history EXCEPT !.prev = gi.pc]

GotoHalt ==
    /\ G_AtStatement(gi, "halt")
    /\ gi.steps < G_StepLimit
    /\ gi' = G_executeHalt(gi)
    /\ UNCHANGED <<job, stage, li, wi, whileAST, gotoAST, original, whileResult, gotoResult>>
    /\ history' = [history EXCEPT !.prev = gi.pc]

\* new LoopToWhileTranslator().translate(loopAST), then runWhile(translated)
TranslateLoopToWhile ==
    /\ job.lang = "loop"
    /\ stage = "source"
    /\ li.status = "returned"
    /\ original' = ResultOf(li)
    /\ whileAST' = LoopToWhile(job.program)
    /\ wi' = W_evaluate(W_new, whileAST', job.options)
    /\ stage' = "while"
    /\ UNCHANGED <<job, li, gi, gotoAST, whileResult, gotoResult>>
    /\ history' = NoHistory

\* The chain: loopToWhile.translate(loopAST), whileToGoto.translate of the
\* result, then runGoto(gotoAST)
TranslateLoopToGoto ==
    /\ job.lang = "loop"
    /\ stage = "source"
    /\ li.status = "returned"
    /\ original' = ResultOf(li)
    /\ whileAST' = LoopToWhile(job.program)
    /\ gotoAST' = WhileToGoto(whileAST')
    /\ gi' = G_evaluate(G_new, gotoAST', job.options)
    /\ stage' = "goto"
    /\ UNCHANGED <<job, li, wi, whileResult, gotoResult>>
    /\ history' = NoHistory

\* new WhileToGotoTranslator().translate(whileAST), then runGoto(translated)
TranslateWhileToGoto ==
    /\ job.lang = "while"
    /\ stage = "source"
    /\ wi.status = "returned"
    /\ original' = ResultOf(wi)
    /\ gotoAST' = WhileToGoto(job.program)
    /\ gi' = G_evaluate(G_new, gotoAST', job.options)
    /\ stage' = "goto"
    /\ UNCHANGED <<job, li, wi, whileAST, whileResult, gotoResult>>
    /\ history' = NoHistory

\* new GotoToWhileTranslator().translate(gotoAST), then runWhile(translated)
TranslateGotoToWhile ==
    /\ job.lang = "goto"
    /\ stage = "source"
    /\ gi.status = "returned"
    /\ original' = ResultOf(gi)
    /\ whileAST' = GotoToWhile(job.program)
    /\ wi' = W_evaluate(W_new, whileAST', job.options)
    /\ stage' = "while"
    /\ UNCHANGED <<job, li, gi, gotoAST, whileResult, gotoResult>>
    /\ history' = NoHistory

\* The round trip: whileToGoto.translate(whileAST), gotoToWhile.translate of
\* the result, then runWhile(roundTrip)
TranslateRoundTrip ==
    /\ job.lang = "while"
    /\ stage = "source"
    /\ wi.status = "returned"
    /\ original' = ResultOf(wi)
    /\ gotoAST' = WhileToGoto(job.program)
    /\ whileAST' = GotoToWhile(gotoAST')
    /\ wi' = W_evaluate(W_new, whileAST', job.options)
    /\ stage' = "while"
    /\ UNCHANGED <<job, li, gi, whileResult, gotoResult>>
    /\ history' = NoHistory

\* The last evaluation of the flow has returned: its result is kept.
Finish ==
    /\ IF stage = "goto"
       THEN /\ gi.status = "returned"
            /\ gotoResult' = ResultOf(gi)
            /\ UNCHANGED whileResult
       ELSE /\ stage = "while"
            /\ wi.status = "returned"
            /\ whileResult' = ResultOf(wi)
            /\ UNCHANGED gotoResult
    /\ stage' = "done"
    /\ UNCHANGED <<job, li, wi, gi, whileAST, gotoAST, original, history>>

Next ==
    \/ RunLoop
    \/ RunWhile
    \/ RunGoto
    \/ LoopAssignment
    \/ LoopLoop
    \/ WhileAssignment
    \/ WhileEnter
    \/ WhileTest
    \/ WhileIf
    \/ GotoAssignment
    \/ GotoGoto
    \/ GotoIfGoto
    \/ GotoHalt
    \/ TranslateLoopToWhile
    \/ TranslateLoopToGoto
    \/ TranslateWhileToGoto
    \/ TranslateGotoToWhile
    \/ TranslateRoundTrip
    \/ Finish

Spec == Init /\ [][Next]_vars

(***************************************************************************)
(* The safety ceilings.  WHILE counts the iterations of one activation of   *)
(* a while statement, GOTO counts the instructions of one call of evaluate: *)
(* a countdown from n takes n iterations in WHILE and 3n + 3 instructions   *)
(* in its WHILE -> GOTO translation.                                        *)
(***************************************************************************)
\* The least n whose translated countdown runs into the ceiling of GOTO.
CeilingCount == GotoSafetyLimit \div 3
CeilingFollow == 4 * WhileSafetyLimit
CeilingJob == Job("while", CountdownFrom(CeilingCount), NoOptions, CeilingFollow)

\* The state an evaluation of the countdown is in when it stands at the loop
\* condition after k rounds.  The specifications of this section start an
\* evaluation at its first step and, to keep the behaviours that show its end
\* short, in its last rounds as well.  HeadsAreRounds states that the
\* evaluation from the first step is in the state of a round whenever it
\* stands at the loop condition: the rounds are states it reaches.
W_Round0Of(n) ==
    LET p == CountdownFrom(n)
        w0 == W_evaluate(W_new, p, NoOptions)
        w1 == W_executeAssignment(w0, p.statements[1])
    IN  W_enterWhile(w1, p.statements[2])
W_AtRoundOf(n, k) ==
    [W_Round0Of(n) EXCEPT !.variables = MapSet(@, "x0", n - k),
                          !.stack[2].safetyCounter = k, !.stack[2].iteration = k,
                          !.steps = @ + 2 * k]
W_HistoryOf(n) ==
    [assigned |-> {"x0"}, entered |-> MapSet(EmptyMap, 2, W_Round0Of(n).variables), prev |-> -1]
W_Round0 == W_Round0Of(CeilingCount)
W_AtRound(k) == W_AtRoundOf(CeilingCount, k)
W_History == W_HistoryOf(CeilingCount)
W_Returned ==
    LET w == W_AtRound(CeilingCount)
    IN  W_Continue(w, w.variables, w.lockedVariables, Advance(Pop(w.stack)))

CeilingGotoAST == WhileToGoto(CeilingJob.program)
G_Round0 ==
    G_executeAssignment(G_evaluate(G_new, CeilingGotoAST, CeilingJob.options),
                        CeilingGotoAST.instructions[1].statement)
G_AtRound(k) ==
    [G_Round0 EXCEPT !.variables = MapSet(@, "x0", CeilingCount - k),
                     !.safetyCounter = @ + 3 * k, !.steps = @ + 3 * k]
G_History(k) == [assigned |-> {"x0"}, entered |-> EmptyMap, prev |-> IF k = 0 THEN 0 ELSE 3]

LastRounds == 8
Rounds == (CeilingCount - LastRounds)..CeilingCount
InitWhileToGotoCeiling ==
    /\ job = CeilingJob
    /\ li = L_new
    /\ whileAST = NoProgram
    /\ whileResult = NoResult
    /\ gotoResult = NoResult
    /\ stage \in {"start", "source", "goto"}
    /\ IF stage = "start"
       THEN wi = W_new /\ gi = G_new /\ history = NoHistory
       ELSE \E k \in Rounds :
               IF stage = "source"
               THEN wi = W_AtRound(k) /\ gi = G_new /\ history = W_History
               ELSE wi = W_Returned /\ gi = G_AtRound(k) /\ history = G_History(k)
    /\ gotoAST = IF stage = "goto" THEN CeilingGotoAST ELSE NoProgram
    /\ original = IF stage = "goto" THEN ResultOf(W_Returned) ELSE NoResult
NextWhileToGotoCeiling ==
    \/ RunWhile
    \/ WhileAssignment
    \/ WhileEnter
    \/ WhileTest
    \/ TranslateWhileToGoto
    \/ GotoAssignment
    \/ GotoGoto
    \/ GotoIfGoto
    \/ GotoHalt
SpecWhileToGotoCeiling == InitWhileToGotoCeiling /\ [][NextWhileToGotoCeiling]_vars

\* An evaluation standing at the loop condition is in the state of its round.
HeadsAreRounds ==
    /\ (stage = "source" /\ wi.status = "running" /\ Top(wi.stack).kind = "while"
            /\ Top(wi.stack).idx = 0)
        => /\ wi = W_AtRound(CeilingCount - Get0(wi.variables, "x0"))
           /\ history = W_History
    /\ (stage = "goto" /\ gi.status = "running" /\ gi.pc = 1)
        => /\ gi = G_AtRound(CeilingCount - Get0(gi.variables, "x0"))
           /\ history = G_History(CeilingCount - Get0(gi.variables, "x0"))
           /\ wi = W_Returned
           /\ original = ResultOf(W_Returned)
           /\ gotoAST = CeilingGotoAST

\* LOOP -> WHILE -> GOTO: a loop of n rounds over x1 := x1 + 1 takes 4n + 4
\* instructions in its translation.
LoopCeilingCount == GotoSafetyLimit \div 4
LoopCeilingProgram ==
    [statements |-> <<Assignment("x0", Num(LoopCeilingCount)), Loop("x0", <<Inc("x1")>>)>>]
LoopCeilingJob == Job("loop", LoopCeilingProgram, NoOptions, CeilingFollow)
LoopCeilingWhileAST == LoopToWhile(LoopCeilingProgram)
LoopCeilingGotoAST == WhileToGoto(LoopCeilingWhileAST)
\* The LOOP evaluator at the end of the program.
L_Returned ==
    [L_evaluate(L_new, LoopCeilingProgram, NoOptions) EXCEPT
        !.variables = MapOfPairs(<<<<"x0", LoopCeilingCount>>, <<"x1", LoopCeilingCount>>>>),
        !.stack = <<>>, !.status = "returned", !.steps = LoopCeilingCount + 2]
\* The GOTO evaluator at the loop head after k rounds.
LG_Round0 ==
    LET g0 == G_evaluate(G_new, LoopCeilingGotoAST, NoOptions)
        g1 == G_executeAssignment(g0, LoopCeilingGotoAST.instructions[1].statement)
    IN  G_executeAssignment(g1, LoopCeilingGotoAST.instructions[2].statement)
LG_AtRound(k) ==
    IF k = 0 THEN LG_Round0
    ELSE [LG_Round0 EXCEPT
            !.variables = MapSet(MapSet(@, "x1", k), VarName(2), LoopCeilingCount - k),
            !.safetyCounter = @ + 4 * k, !.steps = @ + 4 * k]
LG_History(k) ==
    [assigned |-> IF k = 0 THEN {"x0", VarName(2)} ELSE {"x0", "x1", VarName(2)},
     entered |-> EmptyMap, prev |-> IF k = 0 THEN 1 ELSE 5]
\* The evaluation aborts in round LoopCeilingCount: the head after
\* LoopCeilingCount - 1 rounds is the last it stands at.
LoopRounds == (LoopCeilingCount - 1 - LastRounds)..(LoopCeilingCount - 1)
InitLoopToGotoCeiling ==
    /\ job = LoopCeilingJob
    /\ wi = W_new
    /\ whileResult = NoResult
    /\ gotoResult = NoResult
    /\ stage \in {"start", "goto"}
    /\ IF stage = "start"
       THEN li = L_new /\ gi = G_new /\ history = NoHistory
       ELSE \E k \in LoopRounds :
               li = L_Returned /\ gi = LG_AtRound(k) /\ history = LG_History(k)
    /\ whileAST = IF stage = "goto" THEN LoopCeilingWhileAST ELSE NoProgram
    /\ gotoAST = IF stage = "goto" THEN LoopCeilingGotoAST ELSE NoProgram
    /\ original = IF stage = "goto" THEN ResultOf(L_Returned) ELSE NoResult
NextLoopToGotoCeiling ==
    \/ RunLoop
    \/ LoopAssignment
    \/ LoopLoop
    \/ TranslateLoopToGoto
    \/ GotoAssignment
    \/ GotoGoto
    \/ GotoIfGoto
SpecLoopToGotoCeiling == InitLoopToGotoCeiling /\ [][NextLoopToGotoCeiling]_vars

\* An evaluation of the translation standing at the loop head is in the state
\* of its round.
LoopHeadsAreRounds ==
    (stage = "goto" /\ gi.status = "running" /\ gi.pc = 2)
        => /\ gi = LG_AtRound(Get0(gi.variables, "x1"))
           /\ history = LG_History(Get0(gi.variables, "x1"))
           /\ li = L_Returned
           /\ original = ResultOf(L_Returned)
           /\ whileAST = LoopCeilingWhileAST
           /\ gotoAST = LoopCeilingGotoAST

\* WHILE -> GOTO -> WHILE: the round trip of the countdown from n simulates
\* the 3n + 3 instructions of its translation, one per iteration of a single
\* while statement, with x1 as the simulated program counter.
RoundTrip(n) == GotoToWhile(WhileToGoto(CountdownFrom(n)))
\* The evaluator of the round trip when the simulation first stands at the head
\* of the simulated loop, and when it stands there after k rounds.
RT_Round0(n) ==
    LET p == RoundTrip(n)
        w0 == W_evaluate(W_new, p, NoOptions)
        w1 == W_executeAssignment(w0, p.statements[1])
        w2 == W_enterWhile(w1, p.statements[2])
        w3 == W_testWhile(w2)
        w4 == W_executeIf(w3, W_Statement(w3))
        w5 == W_executeAssignment(w4, W_Statement(w4))
    IN  W_executeAssignment(w5, W_Statement(w5))
RT_AtRound(n, k) ==
    [RT_Round0(n) EXCEPT !.variables = MapSet(@, "x0", n - k),
                         !.stack[2].safetyCounter = @ + 3 * k,
                         !.stack[2].iteration = @ + 3 * k,
                         !.steps = @ + 17 * k]
RT_History ==
    [assigned |-> {"x0", "x1"}, entered |-> MapSet(EmptyMap, 2, MapSet(EmptyMap, "x1", 0)),
     prev |-> -1]
\* The simulation stands at the head of the simulated loop.
RT_AtHead ==
    /\ wi.status = "running"
    /\ Len(wi.stack) = 2
    /\ Top(wi.stack).idx = 0
    /\ Get0(wi.variables, "x1") = 1

InitRoundTripCeiling ==
    /\ job = CeilingJob
    /\ stage = "while"
    /\ li = L_new
    /\ gi = G_new
    /\ \E k \in Rounds : wi = RT_AtRound(CeilingCount, k)
    /\ history = RT_History
    /\ gotoAST = CeilingGotoAST
    /\ whileAST = RoundTrip(CeilingCount)
    /\ original = ResultOf(W_Returned)
    /\ whileResult = NoResult
    /\ gotoResult = NoResult
NextRoundTripCeiling ==
    \/ WhileAssignment
    \/ WhileTest
    \/ WhileIf
SpecRoundTripCeiling == InitRoundTripCeiling /\ [][NextRoundTripCeiling]_vars

\* An evaluation of the round trip of a countdown standing at the head of the
\* simulated loop is in the state of its round.
RoundTripHeadsAreRounds ==
    (job.lang = "while" /\ stage = "while" /\ RT_AtHead
        /\ (job.program \in Countdowns \/ job = CeilingJob))
        => LET n == job.program.statements[1].value.value
           IN  /\ wi = RT_AtRound(n, n - Get0(wi.variables, "x0"))
               /\ history = RT_History
               /\ whileAST = RoundTrip(n)

\* WHILE at its own ceiling: countdowns from about WhileSafetyLimit, started
\* in their last rounds at the loop condition.  A countdown from n stands at
\* the condition after k rounds for every k up to n, unless the evaluation has
\* been aborted before.
WhileCeilingCounts == (WhileSafetyLimit - 2)..(WhileSafetyLimit + 4)
WhileCeilingJobs ==
    {Job("while", CountdownFrom(n), NoOptions, CeilingFollow) : n \in WhileCeilingCounts}
InitWhileCeiling ==
    /\ job \in WhileCeilingJobs
    /\ stage = "source"
    /\ li = L_new
    /\ gi = G_new
    /\ whileAST = NoProgram
    /\ gotoAST = NoProgram
    /\ original = NoResult
    /\ whileResult = NoResult
    /\ gotoResult = NoResult
    /\ LET n == job.program.statements[1].value.value
           last == IF n <= WhileSafetyLimit + 1 THEN n ELSE WhileSafetyLimit + 1
       IN  /\ \E k \in (last - LastRounds)..last : wi = W_AtRoundOf(n, k)
           /\ history = W_HistoryOf(n)
NextWhileCeiling ==
    \/ WhileAssignment
    \/ WhileTest
SpecWhileCeiling == InitWhileCeiling /\ [][NextWhileCeiling]_vars

\* An evaluation of a countdown followed from its first step is in the state
\* of its round whenever it stands at the loop condition.
CountdownHeadsAreRounds ==
    (job.lang = "while" /\ stage = "source" /\ job.program \in Countdowns
        /\ wi.status = "running" /\ Top(wi.stack).kind = "while" /\ Top(wi.stack).idx = 0)
        => LET n == job.program.statements[1].value.value
           IN  /\ wi = W_AtRoundOf(n, n - Get0(wi.variables, "x0"))
               /\ history = W_HistoryOf(n)

\* The evaluations that end with an error: WHILE countdowns and the GOTO
\* translation of a countdown in their last rounds before the ceiling, and
\* GOTO programs with a duplicate or an undefined label from their start.
StructuralJobs ==
    {Job("goto", p, NoOptions, MaxSteps) : p \in GotoDuplicatePrograms \cup GotoUndefinedPrograms}
InitErrors ==
    \/ InitWhileCeiling
    \/ InitWhileToGotoCeiling /\ stage = "goto"
    \/ InitWith(StructuralJobs)
NextErrors ==
    \/ RunGoto
    \/ WhileAssignment
    \/ WhileTest
    \/ GotoAssignment
    \/ GotoGoto
    \/ GotoIfGoto
    \/ GotoHalt
SpecErrors == InitErrors /\ [][NextErrors]_vars

\* evaluate(ast, { initialVariables, verbose: true }): the WHILE and GOTO
\* evaluations of Jobs, run with the -v flag.
VerboseJobs ==
    {[j EXCEPT !.options.verbose = TRUE] : j \in {i \in Jobs : i.lang \in {"while", "goto"}}}
InitVerbose == InitWith(VerboseJobs)
NextVerbose ==
    \/ RunWhile
    \/ RunGoto
    \/ WhileAssignment
    \/ WhileEnter
    \/ WhileTest
    \/ WhileIf
    \/ GotoAssignment
    \/ GotoGoto
    \/ GotoIfGoto
    \/ GotoHalt
SpecVerbose == InitVerbose /\ [][NextVerbose]_vars

\* translate(parseWhile(code)), then runGoto(translated), for the WHILE
\* programs of Jobs and those whose constructs end at the same point.
EmptyWhileProgram == [statements |-> <<>>]
WhileToGotoJobs ==
    {j \in Jobs : j.lang = "while"}
        \cup {Job("while", p, NoOptions, MaxSteps) : p \in WhileJoinPrograms}
        \cup {Job("while", EmptyWhileProgram, o, MaxSteps) :
                o \in {NoOptions} \cup {WithInitial(m) : m \in InitialMaps}}
InitWhileToGoto == InitWith(WhileToGotoJobs)
NextWhileToGoto ==
    \/ RunWhile
    \/ WhileAssignment
    \/ WhileEnter
    \/ WhileTest
    \/ WhileIf
    \/ TranslateWhileToGoto
    \/ GotoAssignment
    \/ GotoGoto
    \/ GotoIfGoto
    \/ GotoHalt
SpecWhileToGoto == InitWhileToGoto /\ [][NextWhileToGoto]_vars

\* IF a op b THEN x2 := 1 END for every comparison operator and naturals a, b,
\* evaluated, translated to GOTO (IF a NOT(op) b THEN GOTO ...) and evaluated.
ComparisonOperators == {"=", "!=", "<", ">", "<=", ">="}
NegationValues == 0..(MaxVal + 2)
NegationJobs ==
    {Job("while",
         [statements |-> <<If(Cond(Num(a), op, Num(b)), <<Assignment("x2", Num(1))>>)>>],
         NoOptions, MaxSteps) :
        op \in ComparisonOperators, a \in NegationValues, b \in NegationValues}
InitNegation == InitWith(NegationJobs)
NextNegation ==
    \/ RunWhile
    \/ WhileAssignment
    \/ WhileIf
    \/ TranslateWhileToGoto
    \/ GotoAssignment
    \/ GotoIfGoto
    \/ GotoHalt
SpecNegation == InitNegation /\ [][NextNegation]_vars

\* x0 := 1; x1 := DoublingRounds; WHILE x1 != 0 DO x0 := x0 + x0;
\* x1 := x1 - 1 END; x2 := x0 - x0, evaluated, translated to GOTO and
\* evaluated: x0 is 2^k after k rounds.
DoublingRounds == 1025
DoublingProgram ==
    [statements |->
        << Assignment("x0", Num(1)), Assignment("x1", Num(DoublingRounds)),
           While(NotZero("x1"),
                 <<Assignment("x0", BinaryOp("+", Var("x0"), Var("x0"))), Dec("x1")>>),
           Assignment("x2", BinaryOp("-", Var("x0"), Var("x0"))) >>]
DoublingJob == Job("while", DoublingProgram, NoOptions, 3 * DoublingRounds + 8)
\* The double 2^k.
JS_PowerOfTwo(k) == IF k < 30 THEN 2^k ELSE IF k < 1024 THEN JS_Pow2(k) ELSE JS_Infinity
\* The state of the evaluation at the loop condition after k rounds.
DoublingRound0 ==
    LET p == DoublingProgram
        w0 == W_evaluate(W_new, p, NoOptions)
        w1 == W_executeAssignment(w0, p.statements[1])
        w2 == W_executeAssignment(w1, p.statements[2])
    IN  W_enterWhile(w2, p.statements[3])
DoublingAtRound(k) ==
    [DoublingRound0 EXCEPT
        !.variables = MapSet(MapSet(@, "x0", JS_PowerOfTwo(k)), "x1", DoublingRounds - k),
        !.stack[2].safetyCounter = k, !.stack[2].iteration = k,
        !.steps = @ + 3 * k]
DoublingHistory ==
    [assigned |-> {"x0", "x1"}, entered |-> MapSet(EmptyMap, 2, DoublingRound0.variables),
     prev |-> -1]
\* The evaluation from its first step, and in its last rounds below 2^1024.
InitDoubling ==
    /\ job = DoublingJob
    /\ li = L_new
    /\ gi = G_new
    /\ whileAST = NoProgram
    /\ gotoAST = NoProgram
    /\ original = NoResult
    /\ whileResult = NoResult
    /\ gotoResult = NoResult
    /\ stage \in {"start", "source"}
    /\ IF stage = "start"
       THEN wi = W_new /\ history = NoHistory
       ELSE /\ \E k \in (1023 - LastRounds)..1023 : wi = DoublingAtRound(k)
            /\ history = DoublingHistory
NextDoubling ==
    \/ RunWhile
    \/ WhileAssignment
    \/ WhileEnter
    \/ WhileTest
    \/ TranslateWhileToGoto
    \/ GotoAssignment
    \/ GotoGoto
    \/ GotoIfGoto
    \/ GotoHalt
SpecDoubling == InitDoubling /\ [][NextDoubling]_vars

\* An evaluation standing at the loop condition is in the state of its round.
DoublingHeadsAreRounds ==
    (job = DoublingJob /\ stage = "source" /\ wi.status = "running"
        /\ Top(wi.stack).kind = "while" /\ Top(wi.stack).idx = 0)
        => /\ wi = DoublingAtRound(DoublingRounds - wi.variables["x1"])
           /\ history = DoublingHistory

(***************************************************************************)
(* The doubling written with LOOP, and its LOOP -> WHILE translation         *)
(* x0 := 1; x1 := n; x3 := x1; WHILE x3 != 0 DO x0 := x0 + x0;               *)
(* x3 := x3 - 1 END; x2 := x0 - x0.                                          *)
(***************************************************************************)
LoopDoublingProgram ==
    [statements |->
        << Assignment("x0", Num(1)), Assignment("x1", Num(DoublingRounds)),
           Loop("x1", <<Assignment("x0", BinaryOp("+", Var("x0"), Var("x0")))>>),
           Assignment("x2", BinaryOp("-", Var("x0"), Var("x0"))) >>]
LoopDoublingJob == Job("loop", LoopDoublingProgram, NoOptions, 3 * DoublingRounds + 8)
LoopDoublingWhileAST == LoopToWhile(LoopDoublingProgram)
\* The LOOP evaluator at the end of the program.
LD_Returned ==
    [L_evaluate(L_new, LoopDoublingProgram, NoOptions) EXCEPT
        !.variables = MapOfPairs(<<<<"x0", JS_PowerOfTwo(DoublingRounds)>>,
                                   <<"x1", DoublingRounds>>, <<"x2", JS_NaN>>>>),
        !.stack = <<>>, !.status = "returned", !.steps = DoublingRounds + 4]
\* The WHILE evaluator of the translation at the loop condition after k rounds.
LD_Round0 ==
    LET p == LoopDoublingWhileAST
        w0 == W_evaluate(W_new, p, NoOptions)
        w1 == W_executeAssignment(w0, p.statements[1])
        w2 == W_executeAssignment(w1, p.statements[2])
        w3 == W_executeAssignment(w2, p.statements[3])
    IN  W_enterWhile(w3, p.statements[4])
LD_AtRound(k) ==
    [LD_Round0 EXCEPT
        !.variables = MapSet(MapSet(@, "x0", JS_PowerOfTwo(k)), VarName(3), DoublingRounds - k),
        !.stack[2].safetyCounter = k, !.stack[2].iteration = k,
        !.steps = @ + 3 * k]
LD_History ==
    [assigned |-> {"x0", "x1", VarName(3)},
     entered |-> MapSet(EmptyMap, 2, LD_Round0.variables), prev |-> -1]
\* The flow from its first step, and the evaluation of the translation in its
\* last rounds.
InitLoopDoubling ==
    /\ job = LoopDoublingJob
    /\ gi = G_new
    /\ gotoAST = NoProgram
    /\ whileResult = NoResult
    /\ gotoResult = NoResult
    /\ stage \in {"start", "while"}
    /\ IF stage = "start"
       THEN /\ li = L_new /\ wi = W_new /\ history = NoHistory
            /\ whileAST = NoProgram /\ original = NoResult
       ELSE /\ li = LD_Returned
            /\ \E k \in (DoublingRounds - LastRounds)..DoublingRounds : wi = LD_AtRound(k)
            /\ history = LD_History
            /\ whileAST = LoopDoublingWhileAST
            /\ original = ResultOf(LD_Returned)
NextLoopDoubling ==
    \/ RunLoop
    \/ LoopAssignment
    \/ LoopLoop
    \/ TranslateLoopToWhile
    \/ WhileAssignment
    \/ WhileEnter
    \/ WhileTest
    \/ Finish
SpecLoopDoubling == InitLoopDoubling /\ [][NextLoopDoubling]_vars

\* The flow followed from its first step ends the LOOP evaluation as stated,
\* and its WHILE evaluation is in the state of its round whenever it stands at
\* the loop condition.
LoopDoublingHeadsAreRounds ==
    /\ (stage = "source" /\ li.status = "returned") => li = LD_Returned
    /\ (stage = "while" /\ wi.status = "running" /\ Top(wi.stack).kind = "while"
            /\ Top(wi.stack).idx = 0)
        => /\ wi = LD_AtRound(DoublingRounds - wi.variables[VarName(3)])
           /\ history = LD_History
           /\ li = LD_Returned
           /\ original = ResultOf(LD_Returned)
           /\ whileAST = LoopDoublingWhileAST

(***************************************************************************)
(* One interpreter instance used for several calls.  The field `variables`  *)
(* is assigned in the constructor only; evaluate clears that Map and        *)
(* returns it, so the mapping a caller holds from an earlier call is the    *)
(* Map of the instance: W_returnValue / G_returnValue read it as it is now. *)
(* `original` keeps what the first call returned, at its return.            *)
(***************************************************************************)
InstanceWhilePrograms ==
    Countdowns \cup {[statements |-> Prelude(1, 2) \o k] : k \in WhileInputKernels}
InstanceGotoPrograms == {[instructions |-> GotoPrelude(1, 2) \o k] : k \in GotoExamples}
InstanceJobs ==
    {Job("while", p, NoOptions, MaxSteps) : p \in InstanceWhilePrograms}
        \cup {Job("goto", p, NoOptions, MaxSteps) : p \in InstanceGotoPrograms}
InitInstance == InitWith(InstanceJobs)

\* const first = interpreter.evaluate(program): the caller holds the mapping
\* the first call returned.
KeepResult ==
    /\ stage = "source"
    /\ IF job.lang = "while"
       THEN wi.status = "returned" /\ original' = ResultOf(wi)
       ELSE gi.status = "returned" /\ original' = ResultOf(gi)
    /\ stage' = "kept"
    /\ UNCHANGED <<job, li, wi, gi, whileAST, gotoAST, whileResult, gotoResult, history>>

\* interpreter.setVariable(name, value) on the instance, between calls
WhileSetVariable ==
    /\ stage = "kept"
    /\ job.lang = "while"
    /\ \E name \in InputNames, value \in Values : wi' = W_setVariable(wi, name, value)
    /\ UNCHANGED <<job, stage, li, gi, whileAST, gotoAST, original, whileResult, gotoResult, history>>

GotoSetVariable ==
    /\ stage = "kept"
    /\ job.lang = "goto"
    /\ \E name \in InputNames, value \in Values : gi' = G_setVariable(gi, name, value)
    /\ UNCHANGED <<job, stage, li, wi, whileAST, gotoAST, original, whileResult, gotoResult, history>>

\* interpreter.evaluate(program) once more on the instance
WhileEvaluateAgain ==
    /\ stage = "kept"
    /\ job.lang = "while"
    /\ \E program \in InstanceWhilePrograms : wi' = W_evaluate(wi, program, NoOptions)
    /\ stage' = "again"
    /\ history' = NoHistory
    /\ UNCHANGED <<job, li, gi, whileAST, gotoAST, original, whileResult, gotoResult>>

GotoEvaluateAgain ==
    /\ stage = "kept"
    /\ job.lang = "goto"
    /\ \E program \in InstanceGotoPrograms : gi' = G_evaluate(gi, program, NoOptions)
    /\ stage' = "again"
    /\ history' = NoHistory
    /\ UNCHANGED <<job, li, wi, whileAST, gotoAST, original, whileResult, gotoResult>>

NextInstance ==
    \/ RunWhile
    \/ RunGoto
    \/ WhileAssignment
    \/ WhileEnter
    \/ WhileTest
    \/ WhileIf
    \/ GotoAssignment
    \/ GotoGoto
    \/ GotoIfGoto
    \/ GotoHalt
    \/ KeepResult
    \/ WhileSetVariable
    \/ GotoSetVariable
    \/ WhileEvaluateAgain
    \/ GotoEvaluateAgain
SpecInstance == InitInstance /\ [][NextInstance]_vars

(***************************************************************************)
(* A second call on a used instance.  The first call has returned (with or  *)
(* without initial variables, verbose or not) or has been aborted (a label  *)
(* error of GOTO, the ceiling of WHILE); setVariable may have been called   *)
(* since.  The second call is made with options written out, or with the    *)
(* Map the first call returned.  `job` becomes the second call: what a      *)
(* fresh instance is asked to evaluate.                                     *)
(***************************************************************************)
ReuseOptions ==
    { NoOptions,
      WithInitial([n \in {"x0"} |-> 2]),
      [hasInitial |-> TRUE, initialVariables |-> [n \in {"x0", "x1"} |-> 1], verbose |-> TRUE] }
ReuseWhilePrograms == WhileInputPrograms
ReuseGotoPrograms == GotoInputPrograms \cup GotoDuplicatePrograms \cup GotoUndefinedPrograms
ReuseJobs ==
    {Job("while", p, o, MaxSteps) : p \in ReuseWhilePrograms, o \in ReuseOptions}
        \cup {Job("goto", p, o, MaxSteps) : p \in ReuseGotoPrograms, o \in ReuseOptions}
InitReuse == InitWith(ReuseJobs) \/ InitWhileCeiling

\* interpreter.evaluate(program, options) on the used instance
WhileCallAgain ==
    /\ job.lang = "while"
    /\ stage = "kept" \/ (stage = "source" /\ wi.status = "thrown")
    /\ \E program \in ReuseWhilePrograms, options \in ReuseOptions :
          /\ wi' = W_evaluate(wi, program, options)
          /\ job' = Job("while", program, options, MaxSteps)
    /\ stage' = "again"
    /\ history' = NoHistory
    /\ UNCHANGED <<li, gi, whileAST, gotoAST, original, whileResult, gotoResult>>

GotoCallAgain ==
    /\ job.lang = "goto"
    /\ stage = "kept" \/ (stage = "source" /\ gi.status = "thrown")
    /\ \E program \in ReuseGotoPrograms, options \in ReuseOptions :
          /\ gi' = G_evaluate(gi, program, options)
          /\ job' = Job("goto", program, options, MaxSteps)
    /\ stage' = "again"
    /\ history' = NoHistory
    /\ UNCHANGED <<li, wi, whileAST, gotoAST, original, whileResult, gotoResult>>

\* interpreter.evaluate(program, first), first being the Map the earlier call
\* returned; a fresh instance given a Map of these entries pins them.
WhileCallHeld ==
    /\ job.lang = "while"
    /\ stage = "kept"
    /\ \E program \in ReuseWhilePrograms :
          /\ wi' = W_evaluateHeld(wi, program)
          /\ job' = Job("while", program, WithInitial(W_returnValue(wi)), MaxSteps)
    /\ stage' = "chained"
    /\ history' = NoHistory
    /\ UNCHANGED <<li, gi, whileAST, gotoAST, original, whileResult, gotoResult>>

GotoCallHeld ==
    /\ job.lang = "goto"
    /\ stage = "kept"
    /\ \E program \in ReuseGotoPrograms :
          /\ gi' = G_evaluateHeld(gi, program)
          /\ job' = Job("goto", program, WithInitial(G_returnValue(gi)), MaxSteps)
    /\ stage' = "chained"
    /\ history' = NoHistory
    /\ UNCHANGED <<li, wi, whileAST, gotoAST, original, whileResult, gotoResult>>

NextReuse ==
    \/ RunWhile
    \/ RunGoto
    \/ WhileAssignment
    \/ WhileEnter
    \/ WhileTest
    \/ WhileIf
    \/ GotoAssignment
    \/ GotoGoto
    \/ GotoIfGoto
    \/ GotoHalt
    \/ KeepResult
    \/ WhileSetVariable
    \/ GotoSetVariable
    \/ WhileCallAgain
    \/ GotoCallAgain
    \/ WhileCallHeld
    \/ GotoCallHeld
SpecReuse == InitReuse /\ [][NextReuse]_vars

(***************************************************************************)
(* Properties.                                                             *)
(***************************************************************************)
\* The variables of the source program.
SourceNames ==
    IF job.lang = "goto" THEN InstrNames(job.program.instructions)
    ELSE BlockNames(job.program.statements)

\* Two stores give every variable of the source program the same value (a
\* variable a store does not hold reads as 0).
SameOnSource(a, b) == \A v \in SourceNames : Get0(a, v) = Get0(b, v)

\* The evaluation was started without initial variables.
Plain == ~job.options.hasInitial

\* The evaluation of a translation under way has neither aborted nor run
\* for as long as it is followed: it ends.
WhileEnds == wi.status # "thrown" /\ (wi.status = "running" => wi.steps < W_StepLimit)
GotoEnds == gi.status # "thrown" /\ (gi.status = "running" => gi.steps < G_StepLimit)

C2_WhileToGotoEquivalence ==
    (job.lang = "while" /\ Plain /\ stage = "goto")
        => /\ GotoEnds
           /\ gi.status = "returned" => SameOnSource(gi.variables, original.variables)

\* The countdown from CeilingCount completes in WHILE; the evaluation of its
\* translation is about to execute HALT as instruction 1,000,002.
C2_AtCeiling ==
    /\ job = CeilingJob /\ stage = "goto"
    /\ original.status = "returned"
    /\ G_AtStatement(gi, "halt")
    /\ gi.safetyCounter = GotoSafetyLimit + 1

Direct ==
    \/ job.lang = "loop" /\ stage = "while"
    \/ job.lang = "while" /\ stage = "goto"
    \/ job.lang = "goto" /\ stage = "while"
Target == IF stage = "goto" THEN gi ELSE wi
TargetEnds == IF stage = "goto" THEN GotoEnds ELSE WhileEnds

\* C4: for each of the three translators and every initialVariables mapping
\* (any names, any values), the evaluation of the translation, started with
\* the mapping the evaluation of the source program was started with, ends
\* with the value the source evaluation ends with, for every variable of the
\* source program.
C4_EquivalenceForEveryInput ==
    Direct => /\ TargetEnds
              /\ Target.status = "returned"
                    => SameOnSource(Target.variables, original.variables)

\* The same with initial variables for names of the source program only.
EquivalenceForSourceInputs ==
    (Direct /\ (job.options.hasInitial => DOMAIN job.options.initialVariables \subseteq SourceNames))
        => /\ TargetEnds
           /\ Target.status = "returned"
                 => SameOnSource(Target.variables, original.variables)

\* The initial variables of the evaluations of the job.
Initial == IF job.options.hasInitial THEN job.options.initialVariables ELSE EmptyMap

\* The step of an evaluator with store `before` and then `after` that
\* executes `statement`, an assignment: the first executed assignment to a
\* variable of initialVariables leaves the store as it is, the variable
\* holding the supplied value, and releases the lock; any other assignment
\* stores the value of its expression.
LockStep(statement, before, after, lockedAfter, value) ==
    IF statement.variable \in DOMAIN Initial /\ statement.variable \notin history.assigned
    THEN /\ after = before
         /\ MapHas(before, statement.variable)
         /\ before[statement.variable] = Initial[statement.variable]
         /\ statement.variable \notin lockedAfter
    ELSE after = MapSet(before, statement.variable, value)

C5_Step ==
    /\ (W_HasStatement(wi) /\ W_Statement(wi).type = "assignment" /\ wi' # wi)
        => LockStep(W_Statement(wi), wi.variables, wi'.variables, wi'.lockedVariables,
                    W_evaluateExpression(wi.variables, W_Statement(wi).value))
    /\ (G_AtStatement(gi, "assignment") /\ gi' # gi /\ gi'.status # "thrown")
        => LockStep(G_Instr(gi).statement, gi.variables, gi'.variables, gi'.lockedVariables,
                    G_evaluateExpression(gi.variables, G_Instr(gi).statement.value))

\* C5: for every variable v of initialVariables, the WHILE and the GOTO
\* evaluator suppress exactly the first executed assignment to v (v keeps the
\* supplied value and the lock is released), and every later executed
\* assignment to v stores its computed value.
C5_WriteOnceLock == [][C5_Step]_vars

\* A supplied variable whose first assignment was suppressed and which a later
\* assignment has changed, in the WHILE and in the GOTO evaluator.
C5_Witness ==
    /\ job.lang = "while" /\ stage = "goto"
    /\ \E v \in DOMAIN Initial :
          /\ v \in history.assigned
          /\ v \notin gi.lockedVariables
          /\ Get0(gi.variables, v) # Initial[v]
          /\ Get0(original.variables, v) # Initial[v]

\* The frame at depth d of the WHILE evaluator is the activation of a
\* translated `LOOP var DO body END`: `c := var; WHILE c != 0 DO ... END`.
\* SnapshotOf is the assignment c := var ahead of the while statement,
\* RoundsOf the value var had when the statement was entered.
SnapshotOf(d) == wi.stack[d - 1].body[wi.stack[d - 1].idx - 1]
RoundsOf(d) == Get0(history.entered[d], SnapshotOf(d).value.name)
WhileFrames == {d \in 1..Len(wi.stack) : wi.stack[d].kind = "while"}
LoopFrames == {d \in 1..Len(li.stack) : li.stack[d].kind = "loop"}

G_Snapshot == gi.instructions[gi.pc].statement
G_AtLoopEntry ==
    /\ G_AtStatement(gi, "if_goto")
    /\ gi.pc >= 1
    /\ history.prev = gi.pc - 1
    /\ G_Snapshot.type = "assignment"
    /\ G_Snapshot.variable \notin SourceNames
    /\ G_Snapshot.value.type = "variable"

\* C7 (step): a loop entered with var = 0 is left without a statement of its
\* body executed and with the store as it was at entry.
\*  - LOOP evaluator: the step at the loop statement changes no variable and
\*    passes control to what follows the loop.
\*  - WHILE evaluator on the LOOP->WHILE translation: the activation has begun
\*    no round, the store is the store at entry, and the step at the condition
\*    leaves the statement.
\*  - GOTO evaluator on the LOOP->WHILE->GOTO translation: the step at the loop
\*    head changes no variable and lands right behind the jump that closes the
\*    loop.
C7_Step ==
    /\ (job.lang = "loop" /\ Plain /\ stage = "source" /\ L_HasStatement(li)
            /\ L_Statement(li).type = "loop"
            /\ L_getVariableValue(li.variables, L_Statement(li).variable) = 0 /\ li' # li)
        => /\ li'.variables = li.variables
           /\ li'.stack = L_Unwind(Advance(li.stack))
    /\ (job.lang = "loop" /\ Plain /\ stage = "while" /\ wi.status = "running"
            /\ Top(wi.stack).kind = "while" /\ Top(wi.stack).idx = 0
            /\ RoundsOf(Len(wi.stack)) = 0 /\ wi' # wi)
        => /\ Top(wi.stack).iteration = 0
           /\ SameOnSource(wi.variables, history.entered[Len(wi.stack)])
           /\ wi'.variables = wi.variables
           /\ wi'.stack = W_Unwind(Advance(Pop(wi.stack)))
    /\ (job.lang = "loop" /\ Plain /\ stage = "goto" /\ G_AtLoopEntry
            /\ G_getVariableValue(gi.variables, G_Snapshot.value.name) = 0 /\ gi' # gi)
        => /\ gi'.variables = gi.variables
           /\ gi'.pc > gi.pc
           /\ gi.instructions[gi'.pc].statement.type = "goto"
           /\ G_getLabelIndex(gi.labelMap, gi.instructions[gi'.pc].statement.label) = gi.pc

SimulatedHalt ==
    /\ job.lang = "goto" /\ Plain /\ stage = "while"
    /\ wi.status = "running"
    /\ W_getVariableValue(wi.variables, G2W_PcVar(job.program)) = Len(job.program.instructions)

\* C8 (step):
\*  - the step of the GOTO evaluator at HALT returns, with the store as it is;
\*  - once it has executed HALT the evaluator takes no step, and the store it
\*    returned is the store the flow goes on with;
\*  - in the evaluation of the GOTO->WHILE translation no assignment executes
\*    and no variable changes once the simulated program has halted.
C8_Step ==
    /\ (G_AtStatement(gi, "halt") /\ gi' # gi /\ gi'.status # "thrown")
        => /\ gi'.status = "returned"
           /\ gi'.variables = gi.variables
           /\ gi'.pc = gi.pc
    /\ gi.halted
        => /\ gi' = gi
           /\ (job.lang = "goto" /\ stage = "source" /\ stage' # stage)
                 => original'.variables = gi.variables
    /\ (SimulatedHalt /\ wi' # wi)
        => /\ wi'.variables = wi.variables
           /\ ~(W_HasStatement(wi) /\ W_Statement(wi).type = "assignment")

\* C8: once the GOTO evaluator executes HALT no further instruction executes
\* and the returned store is the store at that moment, also when instructions
\* follow the HALT; the evaluation of the GOTO->WHILE translation applies no
\* source instruction after the simulated HALT.
C8_HaltImmediacy == [][C8_Step]_vars

\* A GOTO program halted by a HALT that instructions follow, and the
\* evaluation of its translation ended with the store of the HALT.
C8_Witness ==
    /\ job.lang = "goto" /\ Plain /\ stage = "while"
    /\ gi.halted
    /\ gi.pc + 1 < Len(job.program.instructions)
    /\ gi.instructions[gi.pc + 2].statement.type = "assignment"
    /\ wi.status = "returned"
    /\ SameOnSource(wi.variables, gi.variables)

\* C9: for every LOOP program, the GOTO evaluator applied to the WHILE->GOTO
\* translation of its LOOP->WHILE translation ends with the value the LOOP
\* evaluator ends with, for every variable of the source program.
C9_LoopToGotoEquivalence ==
    (job.lang = "loop" /\ Plain /\ stage = "goto")
        => /\ GotoEnds
           /\ gi.status = "returned" => SameOnSource(gi.variables, original.variables)

\* The loop of LoopCeilingCount rounds completes in LOOP; the evaluation of its
\* translation is about to execute the jump that closes the last round as
\* instruction 1,000,002.
C9_AtCeiling ==
    /\ job = LoopCeilingJob /\ stage = "goto"
    /\ original.status = "returned"
    /\ G_AtStatement(gi, "goto")
    /\ gi.safetyCounter = GotoSafetyLimit + 1

\* C10: for every WHILE program whose evaluation completes, the WHILE
\* evaluator applied to the GOTO->WHILE translation of its WHILE->GOTO
\* translation ends with the value the evaluation of the program itself ends
\* with, for every variable of the source program.
C10_RoundTrip ==
    (job.lang = "while" /\ Plain /\ stage = "while")
        => /\ WhileEnds
           /\ wi.status = "returned" => SameOnSource(wi.variables, original.variables)

\* The countdown from CeilingCount completes in WHILE; the evaluation of its
\* round trip, having simulated the jump out of the loop, stands at the test
\* that precedes the simulation of HALT, the while statement's test 1,000,002.
C10_AtCeiling ==
    /\ job = CeilingJob /\ stage = "while"
    /\ original.status = "returned"
    /\ wi.status = "running"
    /\ Top(wi.stack).kind = "while" /\ Top(wi.stack).idx = 0
    /\ Get0(wi.variables, "x1") = 4
    /\ Top(wi.stack).safetyCounter = WhileSafetyLimit + 1

\* The counters of a LOOP -> WHILE translation, in the order of its while
\* statements (every while statement of the translation is that of a loop,
\* and its condition reads the loop's counter), and the loops of a LOOP program.
RECURSIVE WhileCounters(_)
WhileCounters(stmts) ==
    IF stmts = <<>> THEN <<>>
    ELSE LET s == Head(stmts)
         IN  (IF s.type = "while" THEN <<s.condition.left.name>> \o WhileCounters(s.body)
              ELSE <<>>) \o WhileCounters(Tail(stmts))
RECURSIVE LoopCount(_)
LoopCount(stmts) ==
    IF stmts = <<>> THEN 0
    ELSE (IF Head(stmts).type = "loop" THEN 1 + LoopCount(Head(stmts).body) ELSE 0)
            + LoopCount(Tail(stmts))
\* The labels the constructs of a WHILE program ask for: two for a while
\* statement and an if with an else branch, one for an if without.
RECURSIVE LabelDemand(_)
LabelDemand(stmts) ==
    IF stmts = <<>> THEN 0
    ELSE LET s == Head(stmts)
         IN  (CASE s.type = "while" -> 2 + LabelDemand(s.body)
                [] s.type = "if" /\ s.hasElse ->
                      2 + LabelDemand(s.thenBody) + LabelDemand(s.elseBody)
                [] s.type = "if" /\ ~s.hasElse -> 1 + LabelDemand(s.thenBody)
                [] OTHER -> 0) + LabelDemand(Tail(stmts))
NoDuplicates(seq) == \A i, j \in 1..Len(seq) : i # j => seq[i] # seq[j]

\* The source program of the translation call that produced whileAST or
\* gotoAST.
LoopToWhileCalled == job.lang = "loop" /\ whileAST # NoProgram
WhileToGotoCalled == gotoAST # NoProgram
W2G_Source == IF job.lang = "loop" THEN whileAST ELSE job.program
GotoToWhileCalled == job.lang # "loop" /\ whileAST # NoProgram
G2W_Source == IF job.lang = "goto" THEN job.program ELSE gotoAST
\* The labels of a GOTO program: those its instructions carry and those its
\* jumps name.
GotoLabels(instructions) ==
    {instructions[i].label : i \in {j \in 1..Len(instructions) : instructions[j].label # ""}}
        \cup Targets([i \in 1..Len(instructions) |-> instructions[i].statement])

\* C11: the fresh identifiers of one translation call are distinct from every
\* identifier of the source program, nested bodies included, and from each
\* other:
\*  - LOOP -> WHILE: one counter per loop, no two the same, none a name of the
\*    source program;
\*  - WHILE -> GOTO: the constructs receive as many different labels as they
\*    ask for, no label is attached to two instructions, and no label of the
\*    output is a name of the source program;
\*  - GOTO -> WHILE: the program counter is no name of the source program.
C11_FreshNameDisjointness ==
    /\ LoopToWhileCalled
        => LET cs == WhileCounters(whileAST.statements)
           IN  /\ Len(cs) = LoopCount(job.program.statements)
               /\ NoDuplicates(cs)
               /\ \A i \in 1..Len(cs) : cs[i] \notin BlockNames(job.program.statements)
    /\ WhileToGotoCalled
        => LET b == W2G_Block(W2G_Source.statements, 1, {})
               raw == b.out \o <<Emit(b.pending, Halt)>>
               all == UNION {raw[i].labels : i \in 1..Len(raw)}
           IN  /\ Cardinality(all) = LabelDemand(W2G_Source.statements)
               /\ \A i, j \in 1..Len(raw) : i # j => raw[i].labels \cap raw[j].labels = {}
               /\ GotoLabels(gotoAST.instructions) \subseteq {LabelName(k) : k \in all}
               /\ GotoLabels(gotoAST.instructions) \cap BlockNames(W2G_Source.statements) = {}
    /\ GotoToWhileCalled
        => whileAST.statements[1].variable \notin InstrNames(G2W_Source.instructions)

\* The translation of x0 := 1; x3 := 2; LOOP x0 DO LOOP x3 DO x1 := x1 + 1 END
\* END has been evaluated: its counters are x2 and, past x3, x4.
C11_Witness ==
    /\ job.lang = "loop" /\ stage = "while" /\ wi.status = "returned"
    /\ "x3" \in BlockNames(job.program.statements)
    /\ WhileCounters(whileAST.statements) = <<"x2", "x4">>

\* The comparison that takes an absent key for a difference (no ?? 0).
compareResults_Strict(a, b) ==
    /\ DOMAIN a = DOMAIN b
    /\ \A key \in DOMAIN a : a[key] = b[key]

\* compareResults(a, b) of cli.ts: every key of either store, an absent key
\* read as 0, the values compared with !== (NaN differs from NaN).
compareResults(a, b) ==
    \A key \in DOMAIN a \cup DOMAIN b : JS_equal(Get0(a, key), Get0(b, key))

\* The flow that has finished is one of the directions of the command line
\* (LOOP -> WHILE, LOOP -> GOTO, WHILE -> GOTO, GOTO -> WHILE), and the store
\* its translation returned.
VerifyDone ==
    /\ stage = "done"
    /\ job.lang = "while" => gotoResult # NoResult
TranslatedResult == IF gotoResult # NoResult THEN gotoResult ELSE whileResult

\* C12: with -verify, for every terminating source program, every initial
\* variables and every supported direction, compareResults of the final store
\* of the original and the final store of the translation is true (PASSED).
C12_VerificationPasses ==
    VerifyDone => compareResults(original.variables, TranslatedResult.variables)

\* C13: the program LOOP x1 DO x0 := x0 + 1; END run with initial variables
\* x0 = a and x1 = b ends with x0 = a + b (x0 = 3, x1 = 4 gives 7), evaluated
\* by the LOOP evaluator and, translated to WHILE, by the WHILE evaluator.
C13_ReadmeAddition ==
    (job.program = AdditionExample /\ job.options.hasInitial
        /\ DOMAIN job.options.initialVariables = {"x0", "x1"})
        => LET sum == job.options.initialVariables["x0"] + job.options.initialVariables["x1"]
           IN  /\ (stage = "source" /\ li.status = "returned")
                    => Get0(li.variables, "x0") = sum
               /\ (stage = "while" /\ wi.status = "returned")
                    => Get0(wi.variables, "x0") = sum

\* The mapping the first evaluate call on the instance returned, as the
\* caller sees it now.
FirstReturned == IF job.lang = "while" THEN W_returnValue(wi) ELSE G_returnValue(gi)

\* C14: the mapping returned by one evaluate call is not changed by any later
\* evaluate or setVariable call on the same interpreter instance (WHILE and
\* GOTO evaluators).
C14_PrivateStore ==
    stage \in {"kept", "again"} => FirstReturned = original.variables

\* Two instructions carry the same label.
HasDuplicateLabel(instructions) ==
    \E i, j \in 1..Len(instructions) :
        i # j /\ instructions[i].label # "" /\ instructions[i].label = instructions[j].label

\* C15: the GOTO evaluator rejects every program in which two instructions
\* carry the same label with a 'Duplicate label' error, raised while the label
\* map is built: no instruction has executed, the store holds the initial
\* variables only, whether or not a jump names the label; and it raises the
\* error for no other program.
C15_DuplicateLabelFatal ==
    gi.status # "idle"
        => /\ HasDuplicateLabel(gi.instructions) <=> gi.error = "Duplicate label"
           /\ HasDuplicateLabel(gi.instructions)
                => /\ gi.status = "thrown"
                   /\ gi.steps = 0 /\ gi.pc = 0 /\ gi.safetyCounter = 0
                   /\ history.assigned = {}
                   /\ gi.variables = Initial

\* A program whose two instructions labelled M1 no jump names, and one whose
\* duplicates stand behind a HALT, would run to the end were the labels not
\* checked: the first has been rejected.
C15_Witness ==
    /\ job.lang = "goto" /\ stage = "source"
    /\ HasDuplicateLabel(job.program.instructions)
    /\ Targets([i \in 1..Len(job.program.instructions) |-> job.program.instructions[i].statement]) = {}
    /\ gi.status = "thrown" /\ gi.error = "Duplicate label"

\* The GOTO evaluator is at a jump it is about to take, and no instruction
\* carries the label the jump names.
G_TakesJump ==
    \/ G_AtStatement(gi, "goto")
    \/ /\ G_AtStatement(gi, "if_goto")
       /\ G_evaluateCondition(gi.variables, G_Instr(gi).statement.condition)
G_TargetUndefined ==
    \A i \in 1..Len(gi.instructions) : gi.instructions[i].label # G_Instr(gi).statement.label

\* C16 (step): a step of the GOTO evaluator raises 'Undefined label' exactly
\* when it executes a jump that is taken and whose label no instruction
\* carries; the evaluation is then aborted.  (A step past the safety ceiling
\* raises the ceiling's error before the instruction is looked at.)
C16_Step ==
    (gi' # gi /\ ~(gi.status = "running" /\ G_SafetyExceeded(gi)))
        => /\ (gi'.error = "Undefined label")
                <=> (gi.status = "running" /\ G_TakesJump /\ G_TargetUndefined)
           /\ gi'.error = "Undefined label" => gi'.status = "thrown"

\* C16: the GOTO evaluator raises 'Undefined label' exactly when a jump whose
\* target label no instruction carries is taken (an executed GOTO, or an IF
\* ... THEN GOTO whose condition is true); a program containing such a jump
\* that is never taken evaluates without error.
C16_UndefinedLabelAtJump == [][C16_Step]_vars

\* x0 := 0; IF x0 = 0 THEN GOTO M9; ...: the conditional jump was taken and
\* the evaluation aborted.
C16_Witness ==
    /\ job.lang = "goto" /\ stage = "source"
    /\ gi.status = "thrown" /\ gi.error = "Undefined label"
    /\ gi.instructions[gi.pc + 1].statement.type = "if_goto"
    /\ gi.steps = 2

\* A program with a jump to a label no instruction carries has been evaluated
\* to the end, the jump never taken.
UndefinedJumpNotTaken ==
    /\ job.lang = "goto" /\ stage = "source"
    /\ job.program \in GotoUndefinedPrograms
    /\ gi.status = "returned" /\ gi.error = ""

\* The WHILE evaluator stands at the condition of a while statement.
W_AtTest == wi.status = "running" /\ Top(wi.stack).kind = "while" /\ Top(wi.stack).idx = 0
W_TestTrue == W_evaluateCondition(wi.variables, Top(wi.stack).condition)

\* C17 as the README states it: a while statement whose condition is still
\* true after 1000 iterations is aborted.
C17_ReadmeStep ==
    (W_AtTest /\ wi' # wi /\ W_TestTrue /\ Top(wi.stack).iteration >= ReadmeIterationLimit)
        => wi'.status = "thrown"
C17_Step ==
    /\ (W_AtTest /\ wi' # wi)
        => /\ (wi'.status = "thrown")
                <=> (W_TestTrue /\ Top(wi.stack).iteration = WhileSafetyLimit + 1)
           /\ wi'.status = "thrown"
                => wi'.error = "Infinite loop detected (safety limit: 1,000,000 iterations)"
           /\ Top(wi.stack).iteration <= WhileSafetyLimit + 1
    /\ (job.lang = "while" /\ stage = "source"
            /\ job.program.statements[1].value.value <= WhileSafetyLimit + 1)
        => wi'.status # "thrown"

CountdownAtLimitCompletes ==
    /\ job.program = CountdownFrom(WhileSafetyLimit + 1)
    /\ stage = "source" /\ wi.status = "returned" /\ Get0(wi.variables, "x0") = 0

W_SafetyMessage == "Infinite loop detected (safety limit: 1,000,000 iterations)"
StructuralErrors == {"Duplicate label", "Undefined label"}
W_OverCeiling == W_AtTest /\ W_TestTrue /\ Top(wi.stack).safetyCounter > WhileSafetyLimit
G_OverCeiling ==
    gi.status = "running" /\ gi.pc < Len(gi.instructions) /\ G_SafetyExceeded(gi)

\* C18 (step): a step of an evaluator that exceeds the iteration/step ceiling
\* aborts the evaluation with the 'Infinite loop detected' error, and no other
\* step raises that error; the error is neither 'Duplicate label' nor
\* 'Undefined label', which are raised below the ceiling only; and an aborted
\* evaluation takes no further step: the call never returns a mapping.
C18_Step ==
    /\ wi' # wi
        => /\ W_OverCeiling <=> wi'.error = W_SafetyMessage
           /\ W_OverCeiling => wi'.status = "thrown"
           /\ wi.status # "thrown"
    /\ gi' # gi
        => /\ G_OverCeiling <=> gi'.error = G_SafetyMessage
           /\ G_OverCeiling => gi'.status = "thrown"
           /\ gi'.error \in StructuralErrors => (gi'.status = "thrown" /\ ~G_OverCeiling)
           /\ gi.status # "thrown"
    /\ W_SafetyMessage \notin StructuralErrors
    /\ G_SafetyMessage \notin StructuralErrors

\* C18: exceeding the iteration/step ceiling aborts evaluation with a
\* 'possible infinite loop' error outcome that is distinct from the
\* structural error outcomes (duplicate label, undefined label), and the
\* aborted evaluate call returns no variable mapping at all.
C18_CeilingAborts == [][C18_Step]_vars

\* The countdown from 1,000,004 has been aborted at the ceiling, x0 still 3.
C18_Witness ==
    /\ job.program = CountdownFrom(WhileSafetyLimit + 4) /\ stage = "source"
    /\ wi.status = "thrown" /\ wi.error = W_SafetyMessage
    /\ Get0(wi.variables, "x0") = 3

\* The GOTO evaluation of the translated countdown has been aborted at the
\* ceiling; evaluations of other programs have been aborted for their labels.
GotoAbortedAtCeiling ==
    job = CeilingJob /\ stage = "goto" /\ gi.status = "thrown" /\ gi.error = G_SafetyMessage
GotoAbortedForLabel(e) == job \in StructuralJobs /\ gi.status = "thrown" /\ gi.error = e
GotoAbortedDuplicate == GotoAbortedForLabel("Duplicate label")
GotoAbortedUndefined == GotoAbortedForLabel("Undefined label")

\* The same call with verbose = false, taken as far as the evaluation under
\* way has come.
QuietOptions == [job.options EXCEPT !.verbose = FALSE]
W_Quiet == W_run(W_evaluate(W_new, job.program, QuietOptions), wi.steps)
G_Quiet == G_run(G_evaluate(G_new, job.program, QuietOptions), gi.steps)

\* C19: for every program and every initialVariables mapping, evaluate with
\* verbose = true returns the same mapping, or fails with the same error, as
\* evaluate with verbose = false, in both the WHILE and the GOTO evaluator:
\* after every step the verbose evaluation has the store, the locks, the
\* control position, the status and the error of the quiet one, and the quiet
\* one has written nothing.
C19_VerboseNonInterference ==
    /\ (job.lang = "while" /\ stage = "source" /\ job.options.verbose)
        => /\ wi.verbose /\ ~W_Quiet.verbose /\ W_Quiet.console = <<>>
           /\ wi.status = W_Quiet.status /\ wi.error = W_Quiet.error
           /\ wi.variables = W_Quiet.variables
           /\ wi.lockedVariables = W_Quiet.lockedVariables
           /\ wi.stack = W_Quiet.stack
    /\ (job.lang = "goto" /\ stage = "source" /\ job.options.verbose)
        => /\ gi.verbose /\ ~G_Quiet.verbose /\ G_Quiet.console = <<>>
           /\ gi.status = G_Quiet.status /\ gi.error = G_Quiet.error
           /\ gi.variables = G_Quiet.variables
           /\ gi.lockedVariables = G_Quiet.lockedVariables
           /\ gi.pc = G_Quiet.pc

\* A verbose WHILE evaluation has returned after reporting an assignment that
\* changed a variable and an iteration of a loop.
C19_Witness ==
    /\ job.lang = "while" /\ stage = "source" /\ job.options.verbose
    /\ wi.status = "returned"
    /\ \E i, k \in 1..Len(wi.console) :
            /\ wi.console[i] = "  x0 := 2 (was 0)"
            /\ wi.console[k] = "    iteration 2"

\* Verbose GOTO evaluations: one returned by HALT with initial variables, one
\* aborted for an undefined label, one reported a jump it took.
VerboseGotoHalted ==
    /\ job.lang = "goto" /\ stage = "source" /\ job.options.verbose
    /\ job.options.hasInitial /\ gi.halted
    /\ \E i \in 1..Len(gi.console) : gi.console[i] = "       -> skipped (using CLI value)"
VerboseGotoAborted ==
    /\ job.lang = "goto" /\ stage = "source" /\ job.options.verbose
    /\ gi.status = "thrown" /\ gi.error = "Undefined label" /\ gi.console # <<>>
VerboseGotoJumped ==
    /\ job.lang = "goto" /\ stage = "source" /\ job.options.verbose
    /\ gi.console # <<>>
    /\ gi.console[Len(gi.console)] = "       -> true, jump to M2 (pc=2)"

\* The instructions of a program that carry `label`.
Carriers(instructions, label) ==
    {i \in 1..Len(instructions) : instructions[i].label = label}
IsJump(instr) == instr.statement.type \in {"goto", "if_goto"}
\* The emission of WHILE -> GOTO before labels are resolved.
W2G_Raw ==
    LET b == W2G_Block(job.program.statements, 1, {})
    IN  b.out \o <<Emit(b.pending, Halt)>>

ConstructsEndAtHalt ==
    /\ job.lang = "while" /\ WhileToGotoCalled
    /\ Cardinality(W2G_Raw[Len(W2G_Raw)].labels) >= 2
    /\ gi.halted /\ history.prev # gi.pc - 1
    /\ Cardinality({i \in 1..Len(gotoAST.instructions) :
                        /\ IsJump(gotoAST.instructions[i])
                        /\ gotoAST.instructions[i].statement.label
                                = gotoAST.instructions[Len(gotoAST.instructions)].label}) >= 2

\* C21: every WHILE -> GOTO output ends with a HALT instruction, and every
\* terminating execution of the output by the GOTO evaluator ends by executing
\* a HALT (the last instruction), never by running past the last instruction;
\* the empty WHILE program translates to a program consisting of HALT only.
C21_EndsByHalt ==
    (job.lang = "while" /\ stage = "goto")
        => LET ins == gotoAST.instructions
           IN  /\ Len(ins) >= 1
               /\ ins[Len(ins)].statement = Halt
               /\ gi.pc < Len(ins)
               /\ gi.status = "returned"
                    => /\ gi.halted
                       /\ G_Instr(gi).statement = Halt
               /\ job.program.statements = <<>> => ins = <<Instr("", Halt)>>

\* The translation of a program that ends with a construct has returned by
\* its HALT, reached by the jump that leaves the construct.
C21_Witness ==
    /\ job.lang = "while" /\ stage = "goto"
    /\ gi.status = "returned" /\ gi.halted
    /\ gi.pc = Len(gotoAST.instructions) - 1
    /\ G_Instr(gi).label # ""
    /\ history.prev # gi.pc - 1

\* The translation of the empty program, HALT only, has returned the initial
\* variables.
EmptyProgramHalted ==
    /\ job.program = EmptyWhileProgram /\ stage = "goto" /\ job.options.hasInitial
    /\ gi.halted /\ gi.steps = 1 /\ gi.variables = job.options.initialVariables
    /\ gi.variables # EmptyMap

\* C22: condition negation is exact: for every comparison operator op and
\* all naturals a and b, NOT(op) holds of (a, b) under the comparison of the
\* WHILE and of the GOTO evaluator exactly when op does not, and
\* NOT(NOT(op)) = op; the conditional jump of the translation is taken
\* exactly when the WHILE evaluator skips the branch.
C22_NegationExact ==
    job \in NegationJobs
        => LET c == job.program.statements[1].condition
           IN  /\ NegateOperator(NegateOperator(c.operator)) = c.operator
               /\ NegateOperator(c.operator) \in ComparisonOperators \ {c.operator}
               /\ W_evaluateCondition(EmptyMap, Negate(c)) = ~W_evaluateCondition(EmptyMap, c)
               /\ G_evaluateCondition(EmptyMap, Negate(c)) = ~G_evaluateCondition(EmptyMap, c)
               /\ G_evaluateCondition(EmptyMap, Negate(c)) = ~W_evaluateCondition(EmptyMap, c)
               /\ stage = "goto"
                    => /\ gotoAST.instructions[1].statement.condition = Negate(c)
                       /\ gi.steps = 1
                            => (gi.pc = 2 <=> ~W_evaluateCondition(EmptyMap, c))
                       /\ gi.status = "returned" => gi.variables = original.variables

\* IF 2 < 2 THEN x2 := 1 END: the translation took the jump on 2 >= 2 and
\* returned without x2.
C22_Witness ==
    /\ job \in NegationJobs
    /\ job.program.statements[1].condition = Cond(Num(2), "<", Num(2))
    /\ stage = "goto" /\ gi.halted /\ gi.steps = 2
    /\ ~MapHas(gi.variables, "x2")

\* A GOTO program in which no label is carried twice and every jump names a
\* label some instruction carries.
WellFormedGoto(instructions) ==
    /\ ~HasDuplicateLabel(instructions)
    /\ \A i \in 1..Len(instructions) :
            IsJump(instructions[i]) => Carriers(instructions, instructions[i].statement.label) # {}
\* The WHILE evaluator stands at the condition of the outer loop of a
\* GOTO -> WHILE translation.
AtOuterTest ==
    /\ job.lang = "goto" /\ stage = "while" /\ WellFormedGoto(job.program.instructions)
    /\ wi.status = "running" /\ Len(wi.stack) = 2 /\ Top(wi.stack).idx = 0
\* The evaluation of the source after k executed instructions.
SourceAfter(k) == G_run(G_evaluate(G_new, job.program, job.options), k)
WithoutKey(m, k) == [key \in DOMAIN m \ {k} |-> m[key]]

\* The evaluation is inside the final else of the dispatch chain: n
\* else-branches deep, no comparison pc = i having held.
InFinalElse ==
    LET n == Len(job.program.instructions)
        pcVar == G2W_PcVar(job.program)
    IN  /\ job.lang = "goto" /\ stage = "while" /\ WellFormedGoto(job.program.instructions)
        /\ Len(wi.stack) = n + 2
        /\ Top(wi.stack).body = G2W_Dispatch(job.program.instructions, pcVar, n)
        /\ Get0(wi.variables, pcVar) \notin 0..(n - 1)

\* C23 for one state: at a test of the outer condition, after k iterations,
\* pc is in 0..n and is the index of the instruction the source evaluation
\* runs next after k instructions (n when it has ended), the other variables
\* are those of the source after k instructions, and the evaluation is never
\* inside the final else of the dispatch chain.
SimulatesSource ==
    LET n == Len(job.program.instructions)
        pcVar == G2W_PcVar(job.program)
    IN  /\ ~InFinalElse
        /\ AtOuterTest
            => LET g == SourceAfter(Top(wi.stack).iteration)
                   pc == Get0(wi.variables, pcVar)
               IN  /\ pc \in 0..n
                   /\ pc = IF g.status = "returned" THEN n ELSE g.pc
                   /\ WithoutKey(wi.variables, pcVar) = g.variables

\* C23: program-counter simulation invariant: while the WHILE evaluator runs
\* the GOTO -> WHILE translation of a well-formed GOTO program with n
\* instructions, at every test of the outer condition the fresh pc holds a
\* value in 0..n that is the index of the next source instruction to run (n
\* meaning halted); each outer iteration applies the effect of exactly one
\* source instruction, and the final else of the dispatch chain is never
\* executed.
C23_PcSimulation == SimulatesSource

\* The same for the evaluations whose initial variables name variables of the
\* source program only.
PcSimulationForSourceInputs ==
    (job.lang = "goto"
        /\ DOMAIN job.options.initialVariables \subseteq InstrNames(job.program.instructions))
        => SimulatesSource

\* pc := 0 was suppressed: the initial variables name the pc variable.
PcPinned ==
    /\ AtOuterTest /\ Top(wi.stack).iteration = 0
    /\ G2W_PcVar(job.program) \in DOMAIN job.options.initialVariables
    /\ Get0(wi.variables, G2W_PcVar(job.program)) # 0

StoredValues(variables) == {variables[name] : name \in DOMAIN variables}

\* C24: naturals invariant: given natural initial values and natural
\* literals, in every reachable state of the WHILE and GOTO evaluators every
\* stored variable value is a natural number; subtraction is monus, so a - b
\* evaluates to max(0, a - b) and never to a negative value, and a variable
\* that was never set reads as 0.
C24_Naturals ==
    /\ \A v \in StoredValues(wi.variables) \cup StoredValues(gi.variables) : JS_IsNatural(v)
    /\ \A a, b \in Values :
            LET e == BinaryOp("-", Num(a), Num(b))
                m == IF a - b > 0 THEN a - b ELSE 0
            IN  /\ W_evaluateBinaryExpression(wi.variables, e) = m
                /\ G_evaluateBinaryExpression(gi.variables, e) = m
    /\ \A name \in {"x0", "x1", "x2", "x3"} :
            /\ ~MapHas(wi.variables, name) => W_getVariableValue(wi.variables, name) = 0
            /\ ~MapHas(gi.variables, name) => G_getVariableValue(gi.variables, name) = 0

\* x0 has become Infinity in the WHILE evaluator; x2 := x0 - x0 has stored
\* NaN; the same in the GOTO evaluator.
WhileStoredInfinity == stage = "source" /\ Get0(wi.variables, "x0") = JS_Infinity
WhileStoredNaN == stage = "source" /\ Get0(wi.variables, "x2") = JS_NaN
GotoStoredNaN == stage = "goto" /\ Get0(gi.variables, "x2") = JS_NaN

\* C25: the safety ceiling does not change translated behaviour from WHILE
\* to GOTO: whenever the WHILE evaluator completes a program without a
\* safety-limit error, the GOTO evaluator run on that program's WHILE -> GOTO
\* translation also completes without a safety-limit error.
C25_CeilingPreserved ==
    (job.lang = "while" /\ stage = "goto" /\ original.status = "returned")
        => ~(gi.status = "thrown" /\ gi.error = G_SafetyMessage)

\* The WHILE evaluator has completed the countdown, no activation of its
\* while statement having run more than CeilingCount iterations.
WhileCompletedBelowCeiling ==
    /\ job = CeilingJob /\ stage = "goto"
    /\ original.status = "returned" /\ wi.status = "returned"
    /\ CeilingCount <= WhileSafetyLimit
    /\ gi.status = "thrown" /\ gi.safetyCounter = GotoSafetyLimit + 2

\* One test of the outer condition of a GOTO -> WHILE translation counts the
\* iterations made so far against the instructions the source executed
\* (gi.steps, the HALT step included): never more, the same number when the
\* test ends the loop, and the test does not abort the evaluation.
StepCountsStep ==
    (AtOuterTest /\ wi' # wi)
        => /\ Top(wi.stack).iteration <= gi.steps
           /\ wi'.status = "returned" <=> Top(wi.stack).iteration = gi.steps
           /\ wi'.status # "thrown"

\* C26: step counts coincide from GOTO to WHILE: for every well-formed GOTO
\* program and initial store, the number of iterations of the single outer
\* loop that the WHILE evaluator performs on the GOTO -> WHILE translation
\* equals the number of instructions the GOTO evaluator executes on the
\* source (the HALT step included), so the translation hits the safety
\* ceiling if and only if the source does.
C26_StepCounts == [][StepCountsStep]_vars

\* The same for the evaluations whose initial variables name variables of the
\* source program only.
StepCountsForSourceInputs ==
    [][(job.lang = "goto"
        /\ DOMAIN job.options.initialVariables \subseteq InstrNames(job.program.instructions))
            => StepCountsStep]_vars

\* The outer loop of a translation has ended after more iterations than the
\* source executed instructions: pc := 0 was suppressed.
MoreIterationsThanInstructions ==
    /\ job.lang = "goto" /\ stage = "while" /\ WellFormedGoto(job.program.instructions)
    /\ G2W_PcVar(job.program) \in DOMAIN job.options.initialVariables
    /\ wi.status = "running" /\ Len(wi.stack) = 2 /\ Top(wi.stack).idx = 0
    /\ Top(wi.stack).iteration > gi.steps


\* C27 (step): a true test of a while statement begins the next iteration
\* when the activation has run at most 1,000,000 iterations, and an
\* instruction of GOTO is executed when the call has executed at most
\* 1,000,000 instructions; after exactly 1,000,001 the next attempt raises
\* the error and leaves the store, the locks, the output and (GOTO) the pc and
\* the halted flag as they were.
C27_Step ==
    /\ (W_AtTest /\ W_TestTrue /\ wi' # wi)
        => IF Top(wi.stack).iteration < WhileSafetyLimit + 1
           THEN /\ wi'.status = "running"
                /\ Top(wi'.stack).iteration = Top(wi.stack).iteration + 1
           ELSE /\ Top(wi.stack).iteration = WhileSafetyLimit + 1
                /\ wi'.status = "thrown" /\ wi'.error = W_SafetyMessage
                /\ wi'.variables = wi.variables
                /\ wi'.lockedVariables = wi.lockedVariables
                /\ wi'.console = wi.console
    /\ (gi.status = "running" /\ gi' # gi)
        => IF gi.steps < GotoSafetyLimit + 1
           THEN /\ gi'.error # G_SafetyMessage
                /\ gi'.steps = gi.steps + 1
                /\ gi' = G_step(gi)
           ELSE /\ gi.steps = GotoSafetyLimit + 1
                /\ gi'.status = "thrown" /\ gi'.error = G_SafetyMessage
                /\ gi'.variables = gi.variables
                /\ gi'.lockedVariables = gi.lockedVariables
                /\ gi'.pc = gi.pc
                /\ gi'.halted = gi.halted
                /\ gi'.console = gi.console

WhileAbortedAtSecondMillion ==
    /\ job.program = CountdownFrom(WhileSafetyLimit + 3) /\ stage = "source"
    /\ wi.status = "thrown" /\ Top(wi.stack).iteration = WhileSafetyLimit + 1
    /\ Get0(wi.variables, "x0") = 2


\* The same call on a fresh instance, taken as far as the call under way on
\* the used instance has come; the output written before the call aside.
W_Fresh == W_run(W_evaluate(W_new, job.program, job.options), wi.steps)
G_Fresh == G_run(G_evaluate(G_new, job.program, job.options), gi.steps)
SameAsFresh ==
    IF job.lang = "while"
    THEN [wi EXCEPT !.console = <<>>] = [W_Fresh EXCEPT !.console = <<>>]
    ELSE [gi EXCEPT !.console = <<>>] = [G_Fresh EXCEPT !.console = <<>>]

\* C28: no state leaks between calls.  An evaluate call on an instance that
\* was used before (an earlier completed or aborted evaluate, earlier
\* setVariable calls) is, at every step and at its end, where the same call
\* on a fresh instance is: same store, locks, labels, verbose setting,
\* status and error.
C28_NoLeak == stage \in {"again", "chained"} => SameAsFresh

\* The same for second calls whose options are written out.
NoLeakForWrittenOptions == stage = "again" => SameAsFresh

\* A second call with written options has ended on an instance whose first
\* call was verbose with pinned variables, or was aborted.
SecondCallAfterVerbose ==
    /\ stage = "again" /\ job.lang = "while" /\ wi.status = "returned"
    /\ ~job.options.hasInitial /\ wi.console # <<>> /\ wi.variables # EmptyMap
SecondCallAfterAbort ==
    /\ stage = "again" /\ job.lang = "goto" /\ gi.status = "returned"
    /\ original = NoResult /\ gi.variables # EmptyMap
SecondCallAfterCeiling ==
    /\ stage = "again" /\ job.lang = "while" /\ wi.status = "returned"
    /\ original = NoResult /\ wi.variables # EmptyMap

\* The call evaluate(program, first) has returned a mapping that differs from
\* the one a fresh instance returns for a Map of the same entries.
HeldMapEmptied ==
    /\ stage = "chained" /\ job.lang = "while" /\ wi.status = "returned"
    /\ W_Fresh.status = "returned" /\ wi.steps = W_Fresh.steps
    /\ wi.variables # W_Fresh.variables


\* A locked variable holds the value initialVariables supplied for it.
LockedAsSupplied(variables, v) == MapHas(variables, v) /\ variables[v] = Initial[v]

\* C29 (step): a step of the WHILE or GOTO evaluator leaves every locked
\* variable with its supplied value, and leaves it locked unless the step
\* executes an assignment whose target is that variable; a suppressed
\* assignment of GOTO changes nothing but the lock and moves pc by 1; and an
\* evaluation that returns without having executed an assignment to a
\* supplied variable returns the supplied value, the variable still locked.
C29_Step ==
    /\ (wi.status = "running" /\ wi' # wi)
        => \A v \in wi.lockedVariables :
              /\ LockedAsSupplied(wi.variables, v)
              /\ LockedAsSupplied(wi'.variables, v)
              /\ v \notin wi'.lockedVariables
                    <=> /\ W_HasStatement(wi)
                        /\ W_Statement(wi).type = "assignment"
                        /\ W_Statement(wi).variable = v
    /\ (gi.status = "running" /\ gi' # gi)
        => \A v \in gi.lockedVariables :
              /\ LockedAsSupplied(gi.variables, v)
              /\ LockedAsSupplied(gi'.variables, v)
              /\ v \notin gi'.lockedVariables
                    <=> /\ G_AtStatement(gi, "assignment")
                        /\ G_Instr(gi).statement.variable = v
              /\ v \notin gi'.lockedVariables
                    => /\ gi'.pc = gi.pc + 1
                       /\ gi'.variables = gi.variables
                       /\ gi'.lockedVariables = gi.lockedVariables \ {v}
    /\ (wi' # wi /\ wi'.status = "returned")
        => \A v \in DOMAIN Initial \ history'.assigned :
              v \in wi'.lockedVariables /\ LockedAsSupplied(W_returnValue(wi'), v)
    /\ (gi' # gi /\ gi'.status = "returned")
        => \A v \in DOMAIN Initial \ history'.assigned :
              v \in gi'.lockedVariables /\ LockedAsSupplied(G_returnValue(gi'), v)

\* C29: lock frame.  The lock on an initial variable v is released only by
\* the execution of an assignment whose target is v; assignments to other
\* variables, reads of v, jumps, and assignments to v in branches or loop
\* bodies that never execute leave v locked with its supplied value; if no
\* assignment to v ever executes, the returned mapping holds the supplied
\* value for v; a suppressed assignment of GOTO still advances pc by 1.
C29_LockFrame == [][C29_Step]_vars

\* WHILE x0 != 0 DO IF x1 < 2 THEN x1 := x1 + 1 END; x0 := x0 - 1 END with
\* {x0: 1, x1: 2} has returned: the branch never ran and x1 is still locked
\* with 2, while the assignments to x0 have run and x0 is released and 0.
C29_Witness ==
    /\ job.lang = "while" /\ stage = "source" /\ wi.status = "returned"
    /\ job.program.statements
          = <<While(NotZero("x0"), <<If(Cond(Var("x1"), "<", Num(2)), <<Inc("x1")>>),
                                     Dec("x0")>>)>>
    /\ Initial = [n \in {"x0", "x1"} |-> IF n = "x0" THEN 1 ELSE 2]
    /\ wi.lockedVariables = {"x1"}
    /\ wi.variables = [n \in {"x0", "x1"} |-> IF n = "x0" THEN 0 ELSE 2]
    /\ history.assigned = {"x0"}

\* GOTO has suppressed the assignment at pc - 1 and stands at the next
\* instruction, with another supplied variable still locked.
GotoSuppressedAdvanced ==
    /\ job.lang = "goto" /\ stage = "source" /\ gi.status = "running" /\ gi.steps = 1
    /\ history.prev = gi.pc - 1 /\ gi.pc = 1
    /\ gi.instructions[1].statement.type = "assignment"
    /\ gi.instructions[1].statement.variable \in DOMAIN Initial \ gi.lockedVariables
    /\ gi.variables = Initial
    /\ gi.lockedVariables # {}


\* The keys of the store of the translation that are not variables of the
\* source program: the fresh counters.
FreshKeys(variables) == DOMAIN variables \ SourceNames
\* The store the WHILE evaluator returns holds 0 for every fresh counter it
\* holds, and compareResults finds no difference to the store LOOP returned.
FinalStoreAgrees(variables) ==
    /\ \A c \in FreshKeys(variables) : variables[c] = 0
    /\ compareResults(original.variables, variables)

\* C30 (step): in the evaluation of a LOOP -> WHILE translation without
\* initial variables, the test that ends a while loop finds the loop's counter,
\* a fresh name, at 0 and leaves it there; and a returned store holds 0 for
\* every fresh counter and passes compareResults against the LOOP store.
C30_Step ==
    (job.lang = "loop" /\ Plain /\ stage = "while")
        => /\ (W_AtTest /\ ~W_TestTrue /\ wi' # wi)
                => LET c == Top(wi.stack).condition.left.name
                   IN  /\ c \notin SourceNames
                       /\ MapHas(wi'.variables, c)
                       /\ wi'.variables[c] = 0
           /\ wi.status = "returned" => FinalStoreAgrees(W_returnValue(wi))
           /\ wi'.status = "returned" => FinalStoreAgrees(W_returnValue(wi'))

\* C30: fresh counters end at 0.  In the evaluation of a LOOP -> WHILE
\* translation without initial variables, whenever the WHILE loop emitted for
\* a LOOP statement has finished, its fresh counter holds 0, so in the final
\* store every fresh counter is absent or 0 and the final store differs from
\* the LOOP evaluator's final store on no key, absent keys read as 0.
C30_FreshCountersEndAtZero == [][C30_Step]_vars

\* The translation of a program with nested loops has returned: two fresh
\* counters are in its store, both 0, keys the LOOP store does not have, and
\* the loops have run (a source variable is not 0).
C30_Witness ==
    /\ job.lang = "loop" /\ Plain /\ stage = "while" /\ wi.status = "returned"
    /\ Cardinality(FreshKeys(wi.variables)) >= 2
    /\ FreshKeys(wi.variables) \cap DOMAIN original.variables = {}
    /\ \E v \in SourceNames : Get0(wi.variables, v) > MaxVal
    /\ FinalStoreAgrees(wi.variables)


\* The translation of the doubling has returned: its fresh counter x3 holds 0,
\* x0 holds Infinity and x2 holds NaN in both stores, and compareResults finds
\* a difference.
LoopDoublingStoresDiffer ==
    /\ job = LoopDoublingJob /\ stage = "while" /\ wi.status = "returned"
    /\ \A c \in FreshKeys(wi.variables) : wi.variables[c] = 0
    /\ FreshKeys(wi.variables) = {VarName(3)}
    /\ wi.variables["x2"] = JS_NaN /\ original.variables["x2"] = JS_NaN
    /\ wi.variables["x0"] = JS_Infinity /\ original.variables["x0"] = JS_Infinity
    /\ ~compareResults(original.variables, wi.variables)

====
